---- MODULE Spec2Model ----
(***************************************************************************)
(* A model of index.js: the appointment store, the per-phone rescheduling  *)
(* and cancellation dialogue, the availability engine, the time parser,    *)
(* the upload merge, the reminder loop and the hook messages.              *)
(*                                                                         *)
(* Time is local wall-clock time in whole minutes since 00:00 of day 0;    *)
(* day 0 is a Sunday.  A date ('YYYY-MM-DD') is a day number.  Text is a   *)
(* sequence of one-character strings.                                      *)
(***************************************************************************)
EXTENDS Integers, Sequences, FiniteSets, TLC

VARIABLES
    appointmentData,        \* the store: a sequence of [name, phone, appointmentTime]
    userReschedulingState,  \* phone -> dialogue entry (NoEntry when the key is absent)
    timers,                 \* FIFO of setTimeout(..., 5000) callbacks set by the message handler
    tasks,                  \* async handlers suspended at an await
    seenPhones,             \* the persisted seenAppointments.json set
    now,                    \* wall clock, minutes
    groqKey,                \* whether process.env.GROQ_API_KEY is set
    tracing,                \* whether the history variable is kept
    rejected,               \* history: what the last step turned away or let escape, if any
    input,                  \* the arguments of a function called on its own
    output,                 \* what that call returned
    scheduling,             \* whether the reminder loop and the hook messages are followed
    whatsappConnected,      \* app.locals.whatsappConnected
    reminderInterval,       \* the handle setInterval returned, NoInterval when null
    activeIntervals,        \* the interval timers not cleared: [id, due]
    ticks,                  \* runs of the interval callback suspended at an await
    statusSheetData,        \* the status sheet: a sequence of [name, phone, status]
    hookTimers,             \* the timers and suspended callbacks of the hook messages
    sent                    \* history: the calls of sendWhatsAppMessage, in order

vars == <<appointmentData, userReschedulingState, timers, tasks, seenPhones, now, groqKey,
          tracing, rejected, input, output, scheduling, whatsappConnected, reminderInterval,
          activeIntervals, ticks, statusSheetData, hookTimers, sent>>

\* what no step of the running program changes
config == <<groqKey, tracing, input, output, scheduling>>

\* the state of the reminder loop and of the hook messages
scheduler == <<whatsappConnected, reminderInterval, activeIntervals, ticks, statusSheetData,
               hookTimers, sent>>

----------------------------------------------------------------------------
(* Bounds of the model *)

\* timers and suspended handlers in flight at once
MaxPending == 1
\* messages of one contact whose handling has not ended, where a contact writes again
\* within the delay of its last message
MaxBurst == 2
\* how many times the clock may move to the next day
MaxDayAdvance == 1
\* the last day on which getAvailableDates is called on its own
MaxStartDay == 13
\* the largest numDays it is called with
MaxHorizon == 9
\* interval timers alive at once
MaxIntervals == 2
\* the days the reminder loop is followed for
MaxRunDays == 1

----------------------------------------------------------------------------
(* Time and calendar *)

MinutesPerDay == 1440
MinutesPerHour == 60

DayOf(t) == t \div MinutesPerDay
MinuteOfDay(t) == t % MinutesPerDay
HourOf(t) == MinuteOfDay(t) \div MinutesPerHour
MinuteOf(t) == MinuteOfDay(t) % MinutesPerHour
\* dayjs .day(): 0 = Sunday .. 6 = Saturday
DayOfWeek(d) == d % 7
AtTime(d, h, m) == d * MinutesPerDay + h * MinutesPerHour + m
Abs(x) == IF x < 0 THEN -x ELSE x

Null == <<>>

BUSINESS_HOURS ==
    [d \in 0..6 |->
        IF d = 0 THEN [open |-> Null, close |-> Null]
                 ELSE [open |-> <<10, 0>>, close |-> <<21, 0>>]]

TIME_SLOT_DURATION == 60

IsOpenDay(d) == BUSINESS_HOURS[DayOfWeek(d)].open # Null

----------------------------------------------------------------------------
(* Availability engine *)

\* a variant whose walk starts today instead of tomorrow
getAvailableDatesFromToday(numDays, today) ==
    SelectSeq([i \in 1..numDays |-> today + i - 1], IsOpenDay)

\* a variant that does not look at the business hours of the day
getAvailableDatesEveryDay(numDays, today) ==
    [i \in 1..numDays |-> today + i]

\* getAvailableDates(numDays) evaluated on day `today`
getAvailableDates(numDays, today) ==
    SelectSeq([i \in 1..numDays |-> today + i], IsOpenDay)

\* a variant that lets the appointment of userPhone itself block a slot
isTimeSlotAvailableForNobody(proposedTime, userPhone, appts) ==
    \A k \in 1..Len(appts) :
        ~ ( /\ DayOf(proposedTime) = DayOf(appts[k].appointmentTime)
            /\ Abs(proposedTime - appts[k].appointmentTime) < MinutesPerHour )

\* a variant for which an appointment exactly one hour away is a conflict too
isTimeSlotAvailableWithin(proposedTime, userPhone, appts) ==
    \A k \in 1..Len(appts) :
        \/ appts[k].phone = userPhone
        \/ ~ ( /\ DayOf(proposedTime) = DayOf(appts[k].appointmentTime)
               /\ Abs(proposedTime - appts[k].appointmentTime) <= MinutesPerHour )

\* a variant that compares the signed difference, without Math.abs
isTimeSlotAvailableSigned(proposedTime, userPhone, appts) ==
    \A k \in 1..Len(appts) :
        \/ appts[k].phone = userPhone
        \/ ~ ( /\ DayOf(proposedTime) = DayOf(appts[k].appointmentTime)
               /\ proposedTime - appts[k].appointmentTime < MinutesPerHour )

\* isTimeSlotAvailable(proposedTime, userPhone) against the store `appts`
isTimeSlotAvailable(proposedTime, userPhone, appts) ==
    \A k \in 1..Len(appts) :
        \/ appts[k].phone = userPhone
        \/ ~ ( /\ DayOf(proposedTime) = DayOf(appts[k].appointmentTime)
               /\ Abs(proposedTime - appts[k].appointmentTime) < MinutesPerHour )

\* a variant whose loop also takes the slot that starts at closing time
RECURSIVE SlotLoopThroughClose(_, _, _, _)
SlotLoopThroughClose(currentSlot, endTime, userPhone, appts) ==
    IF currentSlot <= endTime
    THEN (IF isTimeSlotAvailable(currentSlot, userPhone, appts)
          THEN <<currentSlot>> ELSE <<>>)
         \o SlotLoopThroughClose(currentSlot + TIME_SLOT_DURATION, endTime, userPhone, appts)
    ELSE <<>>

\* lines 770-778: the loop over the slots of the day
RECURSIVE SlotLoop(_, _, _, _)
SlotLoop(currentSlot, endTime, userPhone, appts) ==
    IF currentSlot < endTime
    THEN (IF isTimeSlotAvailable(currentSlot, userPhone, appts)
          THEN <<currentSlot>> ELSE <<>>)
         \o SlotLoop(currentSlot + TIME_SLOT_DURATION, endTime, userPhone, appts)
    ELSE <<>>

\* getAvailableTimeSlots(dateStr, userPhone) against the store `appts`
getAvailableTimeSlots(date, userPhone, appts) ==
    LET bh == BUSINESS_HOURS[DayOfWeek(date)]
    IN  IF bh.open = Null THEN <<>>
        ELSE SlotLoop(AtTime(date, bh.open[1], bh.open[2]),
                      AtTime(date, bh.close[1], bh.close[2]),
                      userPhone, appts)

----------------------------------------------------------------------------
(* Text: String.prototype helpers on sequences of characters *)

UpperLetters == <<"A","B","C","D","E","F","G","H","I","J","K","L","M",
                  "N","O","P","Q","R","S","T","U","V","W","X","Y","Z">>
LowerLetters == <<"a","b","c","d","e","f","g","h","i","j","k","l","m",
                  "n","o","p","q","r","s","t","u","v","w","x","y","z">>
DigitChars == <<"0","1","2","3","4","5","6","7","8","9">>

IsDigit(c) == \E i \in 1..10 : DigitChars[i] = c
DigitVal(c) == (CHOOSE i \in 1..10 : DigitChars[i] = c) - 1
IsSpace(c) == c = " "

LowerChar(c) ==
    IF \E i \in 1..26 : UpperLetters[i] = c
    THEN LowerLetters[CHOOSE i \in 1..26 : UpperLetters[i] = c]
    ELSE c

\* s.toLowerCase()
toLowerCase(s) == [i \in 1..Len(s) |-> LowerChar(s[i])]

\* s.includes(sub)
includes(s, sub) ==
    \E i \in 1..(Len(s) - Len(sub) + 1) : SubSeq(s, i, i + Len(sub) - 1) = sub

RECURSIVE TrimLeft(_)
TrimLeft(s) == IF s # <<>> /\ IsSpace(Head(s)) THEN TrimLeft(Tail(s)) ELSE s

RECURSIVE TrimRight(_)
TrimRight(s) ==
    IF s # <<>> /\ IsSpace(s[Len(s)]) THEN TrimRight(SubSeq(s, 1, Len(s) - 1)) ELSE s

\* s.trim()
trim(s) == TrimRight(TrimLeft(s))

\* s.replace(/\s+/g, ' ')
RECURSIVE CollapseSpaces(_)
CollapseSpaces(s) ==
    IF s = <<>> THEN <<>>
    ELSE IF IsSpace(Head(s)) THEN <<" ">> \o CollapseSpaces(TrimLeft(s))
    ELSE <<Head(s)>> \o CollapseSpaces(Tail(s))

\* s.replace(/[^\d]/g, "")
OnlyDigits(s) == SelectSeq(s, IsDigit)

AllDigits(s) == \A i \in 1..Len(s) : IsDigit(s[i])

RECURSIVE DigitsValue(_)
DigitsValue(s) ==
    IF s = <<>> THEN 0 ELSE 10 * DigitsValue(SubSeq(s, 1, Len(s) - 1)) + DigitVal(s[Len(s)])

\* the longest prefix of s made of digits
RECURSIVE DigitPrefix(_)
DigitPrefix(s) ==
    IF s # <<>> /\ IsDigit(Head(s)) THEN <<Head(s)>> \o DigitPrefix(Tail(s)) ELSE <<>>

\* parseInt(s): [nan |-> TRUE] when no number starts the text
parseInt(s) ==
    LET t == TrimLeft(s)
        neg == t # <<>> /\ Head(t) = "-"
        u == IF t # <<>> /\ Head(t) \in {"-", "+"} THEN Tail(t) ELSE t
        d == DigitPrefix(u)
    IN  IF d = <<>> THEN [nan |-> TRUE, val |-> 0]
        ELSE [nan |-> FALSE, val |-> IF neg THEN -DigitsValue(d) ELSE DigitsValue(d)]

----------------------------------------------------------------------------
(* Time expression parser: the regular expressions of handleTimeSelection *)

NoMatch == [m |-> FALSE, g1 |-> <<>>, g2 |-> <<>>]
Match(g1, g2) == [m |-> TRUE, g1 |-> g1, g2 |-> g2]

\* (\d{1,2}) at the start of s, followed by `rest`: the k it can take
After(s, k) == SubSeq(s, k + 1, Len(s))

\* \s*(?:pm|am)$ at the end, and the text before it
EndsWithMeridiem(s) ==
    Len(s) >= 2 /\ SubSeq(s, Len(s) - 1, Len(s)) \in {<<"p","m">>, <<"a","m">>}
BeforeMeridiem(s) == TrimRight(SubSeq(s, 1, Len(s) - 2))

IsColonMinutes(r) == Len(r) = 3 /\ r[1] = ":" /\ AllDigits(Tail(r))
MinutesOf(r) == Tail(r)
\* :?(\d{2})?
IsOptColonOptMinutes(r) ==
    \/ r = <<>>
    \/ r = <<":">>
    \/ Len(r) = 2 /\ AllDigits(r)
    \/ Len(r) = 3 /\ r[1] = ":" /\ AllDigits(Tail(r))
OptMinutesOf(r) ==
    IF Len(r) = 2 THEN r ELSE IF Len(r) = 3 THEN Tail(r) ELSE <<>>

\* whether r fits what a pattern has between the hour and the end, named by its shape
RestFits(shape, r) ==
    CASE shape = "" -> r = <<>>
      [] shape = ":" -> r = <<":">>
      [] shape = ":dd" -> IsColonMinutes(r)
      [] shape = ":?(dd)?" -> IsOptColonOptMinutes(r)
      [] shape = "[^d]*" -> \A i \in 1..Len(r) : ~IsDigit(r[i])
\* the second group of that match, empty when the pattern has none
Group2(shape, r) ==
    CASE shape = ":dd" -> MinutesOf(r)
      [] shape = ":?(dd)?" -> OptMinutesOf(r)
      [] OTHER -> <<>>

\* a match of ^(\d{1,2}) followed by the shape up to the end; the greedy quantifier
\* takes two digits when both lengths fit
HourThen(s, shape) ==
    LET ks == {k \in 1..2 : /\ k <= Len(s) /\ AllDigits(SubSeq(s, 1, k))
                            /\ RestFits(shape, After(s, k))}
    IN  IF ks = {} THEN NoMatch
        ELSE LET k == CHOOSE x \in ks : \A y \in ks : y <= x
             IN  Match(SubSeq(s, 1, k), Group2(shape, After(s, k)))

\* /^(\d{1,2})\s*(?:pm|am)$/i
PatHourMeridiem(s) ==
    IF EndsWithMeridiem(s) THEN HourThen(BeforeMeridiem(s), "") ELSE NoMatch
\* /^(\d{1,2}):(\d{2})\s*(?:pm|am)$/i
PatHourMinuteMeridiem(s) ==
    IF EndsWithMeridiem(s) THEN HourThen(BeforeMeridiem(s), ":dd")
    ELSE NoMatch
\* /^(\d{1,2}):\s*(?:pm|am)$/i
PatHourColonMeridiem(s) ==
    IF EndsWithMeridiem(s) THEN HourThen(BeforeMeridiem(s), ":") ELSE NoMatch
\* /^(\d{1,2}):?(\d{2})?\s*(?:pm|am)$/i
PatLooseMeridiem(s) ==
    IF EndsWithMeridiem(s)
    THEN HourThen(BeforeMeridiem(s), ":?(dd)?")
    ELSE NoMatch
\* /^(\d{1,2})$/
PatHour(s) == HourThen(s, "")
\* /^(\d{1,2}):$/
PatHourColon(s) == HourThen(s, ":")
\* /^(\d{1,2}):(\d{2})$/
PatHourMinute(s) == HourThen(s, ":dd")
\* /^(\d{1,2})[^\d]*$/
PatHourJunk(s) == HourThen(s, "[^d]*")

\* the timeFormats array, in order
timeFormats(s) ==
    << PatHourMeridiem(s), PatHourMinuteMeridiem(s), PatHourColonMeridiem(s),
       PatHourMeridiem(s), PatLooseMeridiem(s), PatHour(s), PatHourColon(s),
       PatHourMinute(s) >>
\* the alternativePatterns array, in order
alternativePatterns(s) == << PatHourMinute(s), PatHourJunk(s) >>

FirstMatch(ms) ==
    IF \E i \in 1..Len(ms) : ms[i].m
    THEN ms[CHOOSE i \in 1..Len(ms) : ms[i].m /\ \A j \in 1..(i - 1) : ~ms[j].m]
    ELSE NoMatch

NoPeriod == "none"

\* lines 336-427: what the two pattern loops leave in matchedFormat, matchedHour,
\* matchedMinute, matchedPeriod and is24HourFormat
parseTimeInput(messageContent) ==
    LET inputTime == CollapseSpaces(toLowerCase(trim(messageContent)))
        main == FirstMatch(timeFormats(inputTime))
        alt == FirstMatch(alternativePatterns(inputTime))
        mt == IF main.m THEN main ELSE alt
        hour == DigitsValue(mt.g1)
        period == IF ~main.m THEN NoPeriod
                  ELSE IF includes(inputTime, <<"p","m">>) THEN "PM"
                  ELSE IF includes(inputTime, <<"a","m">>) THEN "AM"
                  ELSE NoPeriod
    IN  [ matchedFormat |-> mt.m,
          matchedHour |-> hour,
          matchedMinute |-> IF mt.g2 # <<>> THEN DigitsValue(mt.g2) ELSE 0,
          matchedPeriod |-> period,
          is24HourFormat |-> mt.m /\ period = NoPeriod /\ hour > 12 ]

\* the first slot of the list whose local hour and minute are h:m, or Null
FirstSlotAt(slots, h, m) ==
    LET hit(i) == HourOf(slots[i]) = h /\ MinuteOf(slots[i]) = m
    IN  IF \E i \in 1..Len(slots) : hit(i)
        THEN <<slots[CHOOSE i \in 1..Len(slots) : hit(i) /\ \A j \in 1..(i - 1) : ~hit(j)]>>
        ELSE Null

\* a variant that tries the afternoon hour before the morning hour
candidateHoursPmFirst(matchedHour) ==
    IF matchedHour >= 1 /\ matchedHour <= 11 THEN <<matchedHour + 12, matchedHour>>
    ELSE IF matchedHour = 12 THEN <<0, 12>>
    ELSE IF matchedHour > 12 THEN <<matchedHour>>
    ELSE <<>>

\* lines 468-486: candidateHours when no AM/PM was given
candidateHours(matchedHour) ==
    IF matchedHour >= 1 /\ matchedHour <= 11 THEN <<matchedHour, matchedHour + 12>>
    ELSE IF matchedHour = 12 THEN <<12, 0>>
    ELSE IF matchedHour > 12 THEN <<matchedHour>>
    ELSE <<>>

\* the first candidate hour, in order, that has a slot; that slot
RECURSIVE FirstByHours(_, _, _)
FirstByHours(hours, slots, m) ==
    IF hours = <<>> THEN Null
    ELSE IF FirstSlotAt(slots, Head(hours), m) # Null
         THEN FirstSlotAt(slots, Head(hours), m)
         ELSE FirstByHours(Tail(hours), slots, m)

\* lines 440-500: the exact match
exactMatch(p, slots) ==
    IF p.is24HourFormat THEN FirstSlotAt(slots, p.matchedHour, p.matchedMinute)
    ELSE IF p.matchedPeriod # NoPeriod
    THEN LET hour24 == IF p.matchedPeriod = "PM" /\ p.matchedHour < 12
                            THEN p.matchedHour + 12
                       ELSE IF p.matchedPeriod = "AM" /\ p.matchedHour = 12 THEN 0
                       ELSE p.matchedHour
         IN  FirstSlotAt(slots, hour24, p.matchedMinute)
    ELSE FirstByHours(candidateHours(p.matchedHour), slots, p.matchedMinute)

\* lines 509-528: possibleHours of the fuzzy match
possibleHours(p) ==
    IF p.is24HourFormat \/ p.matchedHour > 12 THEN <<p.matchedHour>>
    ELSE IF p.matchedPeriod = "PM" /\ p.matchedHour < 12 THEN <<p.matchedHour + 12>>
    ELSE IF p.matchedPeriod = "AM" /\ p.matchedHour = 12 THEN <<0>>
    ELSE IF p.matchedPeriod = "AM" THEN <<p.matchedHour>>
    ELSE IF p.matchedPeriod = "PM" /\ p.matchedHour = 12 THEN <<12>>
    ELSE <<p.matchedHour>>
         \o (IF p.matchedHour <= 11 THEN <<p.matchedHour + 12>> ELSE <<>>)
         \o (IF p.matchedHour = 12 THEN <<0>> ELSE <<>>)

tolerance == 15

\* a variant that keeps scanning and takes the last slot within the tolerance
fuzzyMatchLast(p, slots) ==
    LET hs == possibleHours(p)
        near(i) == \E k \in 1..Len(hs) :
            Abs(slots[i] - AtTime(DayOf(slots[i]), hs[k], p.matchedMinute)) <= tolerance
    IN  IF \E i \in 1..Len(slots) : near(i)
        THEN <<slots[CHOOSE i \in 1..Len(slots) : near(i) /\ \A j \in (i + 1)..Len(slots) : ~near(j)]>>
        ELSE Null

\* lines 502-542: the first slot within the tolerance of one of the possible hours
fuzzyMatch(p, slots) ==
    LET hs == possibleHours(p)
        near(i) == \E k \in 1..Len(hs) :
            Abs(slots[i] - AtTime(DayOf(slots[i]), hs[k], p.matchedMinute)) <= tolerance
    IN  IF \E i \in 1..Len(slots) : near(i)
        THEN <<slots[CHOOSE i \in 1..Len(slots) : near(i) /\ \A j \in 1..(i - 1) : ~near(j)]>>
        ELSE Null

\* selectedTime after lines 440-542: <<slot>> or Null
selectTime(p, slots) ==
    IF exactMatch(p, slots) # Null THEN exactMatch(p, slots) ELSE fuzzyMatch(p, slots)

----------------------------------------------------------------------------
(* The inputs of the model *)

PhoneA == <<"1">>
PhoneB == <<"2">>
Stranger == <<"9">>
Blockers == {<<"3">>, <<"4">>, <<"5">>, <<"6">>, <<"7">>, <<"8">>}
Phones == {PhoneA, PhoneB, Stranger} \cup Blockers
\* message bodies the contacts type
Bodies == {
    <<"c","a","n","c","e","l">>,
    <<"R","E","S","C","H","E","D","U","L","E">>,
    <<"c","a","n","c","e","l"," ","o","r"," ","r","e","s","c","h","e","d","u","l","e">>,
    <<"c","o","n","f","i","r","m">>,
    <<"1">>,
    <<"9">>,
    <<"2","p","m">> }

\* a text from the contact with each body, a picture from it, and texts of a phone
\* that never has an appointment
InboundMessages ==
    [from : {PhoneA}, body : Bodies, hasMedia : {FALSE}]
    \cup [from : {PhoneA}, body : {<<"1">>}, hasMedia : {TRUE}]
    \cup [from : {Stranger}, body : {<<"c","a","n","c","e","l">>, <<"1">>}, hasMedia : {FALSE}]

\* the clock when the process starts: Monday 09:00
StartNow == AtTime(1, 9, 0)

\* a spreadsheet row as sheet_to_json returns it; "" , <<>> and 0 are empty cells
Row(name, phone, time) == [name |-> name, phone |-> phone, appointmentTime |-> time]

BatchA == << Row("Ann", <<"1">>, AtTime(3, 14, 0)) >>
BatchDup ==
    << Row("Anna", <<"1","-">>, AtTime(4, 15, 0)),
       Row("", <<"2">>, AtTime(3, 9, 0)),
       Row("Bob", <<"+","2">>, AtTime(3, 16, 0)),
       Row("Ann", <<"1">>, AtTime(3, 14, 0)) >>

BatchNames == {"A", "Dup", "Block", "Invalid"}
Batch(n) ==
    CASE n = "A" -> BatchA
      [] n = "Dup" -> BatchDup
      [] n = "Block" ->
            << Row("C", <<"3">>, AtTime(2, 10, 30)), Row("D", <<"4">>, AtTime(2, 12, 30)),
               Row("E", <<"5">>, AtTime(2, 14, 30)), Row("F", <<"6">>, AtTime(2, 16, 30)),
               Row("G", <<"7">>, AtTime(2, 18, 30)), Row("H", <<"8">>, AtTime(2, 20, 30)) >>
      [] n = "Invalid" -> << Row("Zed", <<>>, AtTime(3, 14, 0)), Row("Ann", <<"1">>, 0) >>

----------------------------------------------------------------------------
(* The store *)

PhonesOf(appts) == {appts[k].phone : k \in 1..Len(appts)}
HasAppointment(appts, phone) == \E k \in 1..Len(appts) : appts[k].phone = phone
\* Array.prototype.findIndex(appt => appt.phone === phone); 0 when there is none
findIndex(appts, phone) ==
    IF HasAppointment(appts, phone)
    THEN CHOOSE k \in 1..Len(appts) :
            appts[k].phone = phone /\ \A j \in 1..(k - 1) : appts[j].phone # phone
    ELSE 0
\* Array.prototype.splice(index, 1)
splice(appts, index) == SubSeq(appts, 1, index - 1) \o SubSeq(appts, index + 1, Len(appts))

\* line 1337 under line 682: splice removes the element of a phone from the array a
\* suspended loop iterates.  An element behind the loop's index is gone from what is
\* left; for one at the index or before it the elements move down by one, and the
\* iterator, whose next index stays, passes over the element that followed
spliceUnderLoop(k, phone) ==
    IF ~k.live \/ Len(k.queue) < 2 THEN k
    ELSE LET rest == Tail(k.queue)
         IN  [k EXCEPT !.queue =
                 <<Head(k.queue)>> \o (IF HasAppointment(rest, phone)
                                       THEN splice(rest, findIndex(rest, phone))
                                       ELSE Tail(rest))]

\* lines 1082 and 1228 under line 1337: appointmentData names a new array, and the
\* suspended loops go on through the array they were started on
rebound(k) == [k EXCEPT !.live = FALSE]

\* lines 970-1016: the valid rows of the upload, phone reduced to its digits
IsValidRow(row) == row.name # "" /\ row.phone # <<>> /\ row.appointmentTime # 0
FormatRow(row) ==
    [name |-> row.name, phone |-> OnlyDigits(row.phone), appointmentTime |-> row.appointmentTime]
newAppointmentsOf(rawData) ==
    LET valid == SelectSeq(rawData, IsValidRow)
    IN  [k \in 1..Len(valid) |-> FormatRow(valid[k])]

\* a variant in which the uploaded time wins over the stored one
keepsOnlyUnlisted(existingAppt, newAppointments) ==
    findIndex(newAppointments, existingAppt.phone) = 0

\* lines 1030-1058: the existing records the merge keeps, in store order
keepsExisting(existingAppt, newAppointments) ==
    LET i == findIndex(newAppointments, existingAppt.phone)
    IN  IF i # 0
        THEN existingAppt.appointmentTime # newAppointments[i].appointmentTime
        ELSE TRUE
\* a variant that drops the records the upload does not list
preservedOfListed(existing, newAppointments) ==
    LET keep(e) == /\ findIndex(newAppointments, e.phone) # 0
                   /\ e.appointmentTime #
                         newAppointments[findIndex(newAppointments, e.phone)].appointmentTime
    IN  SelectSeq(existing, keep)

preservedOf(existing, newAppointments) ==
    LET keep(e) == keepsExisting(e, newAppointments)
    IN  SelectSeq(existing, keep)

\* a variant that does not record the phones it adds
RECURSIVE addedOfUnrecorded(_, _)
addedOfUnrecorded(newAppointments, processedPhones) ==
    IF newAppointments = <<>> THEN <<>>
    ELSE LET newAppt == Head(newAppointments)
         IN  (IF newAppt.phone \notin processedPhones THEN <<newAppt>> ELSE <<>>)
             \o addedOfUnrecorded(Tail(newAppointments), processedPhones)

\* lines 1066-1076: the uploaded records not yet processed, first occurrence only
RECURSIVE addedOf(_, _)
addedOf(newAppointments, processedPhones) ==
    IF newAppointments = <<>> THEN <<>>
    ELSE LET newAppt == Head(newAppointments)
         IN  IF newAppt.phone \notin processedPhones
             THEN <<newAppt>> \o addedOf(Tail(newAppointments),
                                         processedPhones \cup {newAppt.phone})
             ELSE addedOf(Tail(newAppointments), processedPhones)

\* lines 1024-1082: mergedAppointments
smartMerge(existing, newAppointments) ==
    LET preserved == preservedOf(existing, newAppointments)
    IN  preserved \o addedOf(newAppointments, PhonesOf(preserved))

\* the same when newlySeenPhones does not start as a clone of the set loaded
newlySeenPhonesOfAdded(existing, newAppointments, seen) ==
    PhonesOf(addedOf(newAppointments, PhonesOf(preservedOf(existing, newAppointments))))

\* lines 1061-1078: the set saveSeenAppointments writes
newlySeenPhonesOf(existing, newAppointments, seen) ==
    LET preserved == preservedOf(existing, newAppointments)
    IN  seen \cup PhonesOf(addedOf(newAppointments, PhonesOf(preserved)))

----------------------------------------------------------------------------
(* The dialogue state *)

\* a field that was never assigned
Undefined == <<-1>>

\* userReschedulingState[phone] when the key is absent
NoEntry ==
    [stage |-> "idle", availableDates |-> Undefined, selectedDate |-> 0,
     availableTimeSlots |-> Undefined]
\* lines 247-251: { currentAppointment, availableDates, stage: 'selecting_date' }
SelectingDateEntry(dates) ==
    [stage |-> "selecting_date", availableDates |-> dates, selectedDate |-> 0,
     availableTimeSlots |-> Undefined]
\* lines 656-659: { currentAppointment, stage: 'confirming_cancellation' }
ConfirmingEntry ==
    [stage |-> "confirming_cancellation", availableDates |-> Undefined, selectedDate |-> 0,
     availableTimeSlots |-> Undefined]

\* a callback the message handler has put on a 5 second timer
Timer(h, phone, content) == [h |-> h, phone |-> phone, content |-> content]
NoTimer == Timer("none", <<>>, <<>>)

\* a handler suspended at an await: waiting for the text generation call (pc = "groq"),
\* for its reply to be sent (pc = "reply") or for the apology of its catch block
\* (pc = "catch"); `kind` names the reply the handler was about to send ("error" when
\* it threw before any), `after` is what follows the reply, `stale` tells that the entry
\* object the handler holds is no longer userReschedulingState[phone], `text` is where
\* the text of a retention or farewell message comes from
Task(h, phone, pc, kind, after) ==
    [h |-> h, phone |-> phone, pc |-> pc, kind |-> kind, after |-> after, stale |-> FALSE,
     text |-> ""]

\* no function is called on its own while the program runs
NoCall == [fn |-> "none"]
NotReturned == [done |-> FALSE]

\* what a step turned away: a message it ignored (lines 132-140, 195-209), an upload
\* it answered with status 400 (lines 1018-1022), or the rejection of a reply that no
\* catch block took (lines 171-173, 268-269, 322-323, 594-595, 666, 727)
Reject(what, phone) == [what |-> what, phone |-> phone]
NoReject == Reject("", <<>>)

\* the messages of a contact whose handling has not ended
Pending(phone) ==
    Cardinality({k \in 1..Len(timers) : timers[k].phone = phone})
    + Cardinality({t \in tasks : t.phone = phone})

\* the suspended handlers of `phone` lose their entry object when the key is
\* reassigned or deleted
Orphan(ts, phone) ==
    {IF t.phone = phone /\ t.after = "revert" THEN [t EXCEPT !.stale = TRUE] ELSE t : t \in ts}

----------------------------------------------------------------------------
(* whatsappClient.on("message"), lines 124-214 *)

IsConfirmation(messageContent) ==
    \/ includes(messageContent, <<"c","o","n","f","i","r","m"," ","c","a","n","c","e","l">>)
    \/ includes(messageContent, <<"c","o","n","f","i","r","m">>)
    \/ messageContent = <<"c","a","n","c","e","l">>
    \/ messageContent = <<"y","e","s">>
MentionsReschedule(messageContent) ==
    includes(messageContent, <<"r","e","s","c","h","e","d","u","l","e">>)
MentionsCancel(messageContent) ==
    \/ includes(messageContent, <<"c","a","n","c","e","l">>)
    \/ includes(messageContent, <<"c","a","n","c","e","l","l","a","t","i","o","n">>)

\* a variant that cancels at the first mention of "cancel"
routeByStageHasty(stage, phone, messageContent) ==
    IF stage = "selecting_date" THEN Timer("handleDateSelection", phone, messageContent)
    ELSE IF stage = "selecting_time" THEN Timer("handleTimeSelection", phone, messageContent)
    ELSE IF MentionsCancel(messageContent) \/ IsConfirmation(messageContent)
         THEN Timer("processCancellation", phone, <<>>)
    ELSE IF MentionsReschedule(messageContent)
         THEN Timer("handleRescheduleRequest", phone, <<>>)
    ELSE IF stage = "confirming_cancellation" THEN Timer("replyUnsure", phone, <<>>)
    ELSE NoTimer

\* lines 144-209: the callback put on the timer for a text message of a phone that
\* has an appointment, by the stage of its entry
routeByStage(stage, phone, messageContent) ==
    IF stage = "confirming_cancellation"
    THEN IF IsConfirmation(messageContent) THEN Timer("processCancellation", phone, <<>>)
         ELSE IF MentionsReschedule(messageContent)
              THEN Timer("handleRescheduleRequest", phone, <<>>)
         ELSE Timer("replyUnsure", phone, <<>>)
    ELSE IF stage = "selecting_date" THEN Timer("handleDateSelection", phone, messageContent)
    ELSE IF stage = "selecting_time" THEN Timer("handleTimeSelection", phone, messageContent)
    ELSE IF MentionsCancel(messageContent)
         THEN Timer("handleCancellationRequest", phone, <<>>)
    ELSE IF MentionsReschedule(messageContent)
         THEN Timer("handleRescheduleRequest", phone, <<>>)
    ELSE NoTimer

\* a variant without the hasMedia test
routeAnyPayload(message, appts, states) ==
    IF ~HasAppointment(appts, message.from) THEN NoTimer
    ELSE routeByStage(states[message.from].stage, message.from, toLowerCase(message.body))

\* lines 126-140: what the handler does with a message
route(message, appts, states) ==
    LET phone == message.from
        messageContent == toLowerCase(message.body)
    IN  IF ~HasAppointment(appts, phone) THEN NoTimer
        ELSE IF message.hasMedia THEN NoTimer
        ELSE routeByStage(states[phone].stage, phone, messageContent)

\* why the message handler schedules nothing for a message, NoReject when it does
messageRejection(message) ==
    IF route(message, appointmentData, userReschedulingState) # NoTimer THEN NoReject
    ELSE IF ~HasAppointment(appointmentData, message.from)
         THEN Reject("no appointment", message.from)
    ELSE IF message.hasMedia THEN Reject("media", message.from)
    ELSE Reject("no command", message.from)

\* lines 124-214; the contact has fewer than `bound` messages whose handling has not
\* ended
OnMessageWithin(message, bound) ==
    LET t == route(message, appointmentData, userReschedulingState)
    IN  /\ t # NoTimer => Pending(message.from) < bound
        /\ timers' = IF t = NoTimer THEN timers ELSE Append(timers, t)
        /\ rejected' = IF tracing THEN messageRejection(message) ELSE NoReject
        /\ UNCHANGED <<appointmentData, userReschedulingState, tasks, seenPhones, now, config, scheduler>>

OnMessage(message) == OnMessageWithin(message, MaxPending)

----------------------------------------------------------------------------
(* The handlers, each up to its first await.  Every one is started by the  *)
(* timer at the head of the queue: equal delays expire in the order set.   *)

\* a variant in which a timer waits for the handlers that are suspended
FiresWhenIdle(h) == timers # <<>> /\ Head(timers).h = h /\ tasks = {}
Fires(h) == timers # <<>> /\ Head(timers).h = h
Start(t) ==
    /\ timers' = Tail(timers)
    /\ tasks' = tasks \cup {t}
\* the same, with the entry of the phone reassigned
StartReassigned(t) ==
    /\ timers' = Tail(timers)
    /\ tasks' = Orphan(tasks, t.phone) \cup {t}

\* handleRescheduleRequest, lines 224-263
handleRescheduleRequest ==
    /\ Fires("handleRescheduleRequest")
    /\ LET phone == Head(timers).phone
           availableDates == getAvailableDates(7, DayOf(now))
       IN  IF ~HasAppointment(appointmentData, phone)
           THEN /\ Start(Task("handleRescheduleRequest", phone, "reply", "not found", "none"))
                /\ UNCHANGED userReschedulingState
           ELSE IF Len(availableDates) = 0
           THEN /\ Start(Task("handleRescheduleRequest", phone, "reply", "no dates", "none"))
                /\ UNCHANGED userReschedulingState
           ELSE /\ userReschedulingState' =
                      [userReschedulingState EXCEPT ![phone] = SelectingDateEntry(availableDates)]
                /\ StartReassigned(
                      Task("handleRescheduleRequest", phone, "reply", "date list", "none"))
    /\ rejected' = NoReject
    /\ UNCHANGED <<appointmentData, seenPhones, now, config, scheduler>>

\* handleDateSelection, lines 274-317
handleDateSelection ==
    /\ Fires("handleDateSelection")
    /\ LET phone == Head(timers).phone
           userState == userReschedulingState[phone]
           n == parseInt(trim(Head(timers).content))
           selectedDateIndex == n.val - 1
       IN  IF n.nan \/ selectedDateIndex < 0
           THEN /\ Start(Task("handleDateSelection", phone, "reply", "invalid", "none"))
                /\ UNCHANGED userReschedulingState
           ELSE IF userState.availableDates = Undefined
           THEN \* TypeError: the entry is gone or has no availableDates
                /\ Start(Task("handleDateSelection", phone, "catch", "error", "none"))
                /\ UNCHANGED userReschedulingState
           ELSE IF selectedDateIndex >= Len(userState.availableDates)
           THEN /\ Start(Task("handleDateSelection", phone, "reply", "invalid", "none"))
                /\ UNCHANGED userReschedulingState
           ELSE LET selectedDate == userState.availableDates[selectedDateIndex + 1]
                    timeSlots == getAvailableTimeSlots(selectedDate, phone, appointmentData)
                IN  IF Len(timeSlots) = 0
                    THEN /\ userReschedulingState' =
                               [userReschedulingState EXCEPT
                                   ![phone].selectedDate = selectedDate,
                                   ![phone].stage = "selecting_time"]
                         /\ Start(Task("handleDateSelection", phone, "reply", "no slots",
                                       "revert"))
                    ELSE /\ userReschedulingState' =
                               [userReschedulingState EXCEPT
                                   ![phone].selectedDate = selectedDate,
                                   ![phone].stage = "selecting_time",
                                   ![phone].availableTimeSlots = timeSlots]
                         /\ Start(Task("handleDateSelection", phone, "reply", "time list",
                                       "none"))
    /\ rejected' = NoReject
    /\ UNCHANGED <<appointmentData, seenPhones, now, config, scheduler>>

\* a variant that looks at the store again before it commits
commitTimeIfFree(appts, phone, selectedTime) ==
    LET appointmentIndex == findIndex(appts, phone)
    IN  IF appointmentIndex # 0 /\ isTimeSlotAvailable(selectedTime, phone, appts)
        THEN [appts EXCEPT ![appointmentIndex].appointmentTime = selectedTime]
        ELSE appts

\* lines 564-575: the store after the reschedule is committed
commitTime(appts, phone, selectedTime) ==
    LET appointmentIndex == findIndex(appts, phone)
    IN  IF appointmentIndex # 0
        THEN [appts EXCEPT ![appointmentIndex].appointmentTime = selectedTime]
        ELSE appts

\* handleTimeSelection, lines 332-585
handleTimeSelection ==
    /\ Fires("handleTimeSelection")
    /\ LET phone == Head(timers).phone
           userState == userReschedulingState[phone]
           p == parseTimeInput(Head(timers).content)
       IN  IF userState.availableTimeSlots = Undefined
           THEN \* TypeError: the entry is gone or has no availableTimeSlots
                /\ Start(Task("handleTimeSelection", phone, "catch", "error", "none"))
                /\ UNCHANGED appointmentData
           ELSE IF ~p.matchedFormat
           THEN /\ Start(Task("handleTimeSelection", phone, "reply", "bad format", "none"))
                /\ UNCHANGED appointmentData
           ELSE LET selectedTime == selectTime(p, userState.availableTimeSlots)
                IN  IF selectedTime = Null
                    THEN /\ Start(Task("handleTimeSelection", phone, "reply", "no match",
                                       "none"))
                         /\ UNCHANGED appointmentData
                    ELSE /\ appointmentData' =
                               commitTime(appointmentData, phone, selectedTime[1])
                         /\ Start(Task("handleTimeSelection", phone, "reply", "rescheduled",
                                       "delete"))
    /\ rejected' = NoReject
    /\ UNCHANGED <<userReschedulingState, seenPhones, now, config, scheduler>>

\* handleCancellationRequest, lines 601-662
handleCancellationRequest ==
    /\ Fires("handleCancellationRequest")
    /\ LET phone == Head(timers).phone
       IN  IF ~HasAppointment(appointmentData, phone)
           THEN /\ Start(Task("handleCancellationRequest", phone, "reply", "not found", "none"))
                /\ UNCHANGED userReschedulingState
           ELSE IF groqKey
           THEN /\ Start(Task("handleCancellationRequest", phone, "groq", "retention", "none"))
                /\ UNCHANGED userReschedulingState
           ELSE /\ userReschedulingState' =
                      [userReschedulingState EXCEPT ![phone] = ConfirmingEntry]
                /\ StartReassigned(
                      [Task("handleCancellationRequest", phone, "reply", "retention", "none")
                          EXCEPT !.text = "template"])
    /\ rejected' = NoReject
    /\ UNCHANGED <<appointmentData, seenPhones, now, config, scheduler>>

\* processCancellation, lines 676-716
processCancellation ==
    /\ Fires("processCancellation")
    /\ LET phone == Head(timers).phone
           appointmentIndex == findIndex(appointmentData, phone)
       IN  IF userReschedulingState[phone] = NoEntry
           THEN \* TypeError: no entry to read currentAppointment from
                /\ Start(Task("processCancellation", phone, "catch", "error", "none"))
                /\ UNCHANGED <<appointmentData, ticks>>
           ELSE IF appointmentIndex # 0
           THEN /\ appointmentData' = splice(appointmentData, appointmentIndex)
                /\ ticks' = {spliceUnderLoop(k, phone) : k \in ticks}
                /\ Start(IF groqKey
                         THEN Task("processCancellation", phone, "groq", "farewell", "delete")
                         ELSE [Task("processCancellation", phone, "reply", "farewell", "delete")
                                  EXCEPT !.text = "template"])
           ELSE /\ Start(Task("processCancellation", phone, "reply", "not in system", "none"))
                /\ UNCHANGED <<appointmentData, ticks>>
    /\ rejected' = NoReject
    /\ UNCHANGED <<userReschedulingState, seenPhones, now, config, whatsappConnected,
                   reminderInterval, activeIntervals, statusSheetData, hookTimers, sent>>

\* lines 171-173: the timer that only replies "I'm not sure what you'd like to do"
replyUnsure ==
    /\ Fires("replyUnsure")
    /\ Start(Task("replyUnsure", Head(timers).phone, "reply", "unsure", "none"))
    /\ rejected' = NoReject
    /\ UNCHANGED <<appointmentData, userReschedulingState, seenPhones, now, config, scheduler>>

----------------------------------------------------------------------------
(* The handlers after an await *)

\* the handlers whose catch block ends with delete userReschedulingState[phone]
catchDeletes(h) == h \in {"handleDateSelection", "handleTimeSelection", "processCancellation"}
\* the handlers that run inside try/catch
hasCatch(h) == h # "replyUnsure"

\* a variant that marks the entry idle and keeps the lists it holds
deleteEntryKeepsLists(states, phone) == [states EXCEPT ![phone].stage = "idle"]
\* delete userReschedulingState[phone]
deleteEntry(states, phone) == [states EXCEPT ![phone] = NoEntry]

\* a variant without the inner try of lines 633 and 698: a failure of the axios call
\* goes to the catch block of the handler
GroqAnswersOrThrows(t, text) ==
    /\ t \in tasks /\ t.pc = "groq"
    /\ IF text = "template"
       THEN /\ UNCHANGED userReschedulingState
            /\ tasks' = (tasks \ {t}) \cup {[t EXCEPT !.pc = "catch", !.after = "none"]}
       ELSE /\ userReschedulingState' =
                  IF t.h = "handleCancellationRequest"
                  THEN [userReschedulingState EXCEPT ![t.phone] = ConfirmingEntry]
                  ELSE userReschedulingState
            /\ tasks' = (tasks \ {t}) \cup {[t EXCEPT !.pc = "reply", !.text = text]}
    /\ rejected' = NoReject
    /\ UNCHANGED <<appointmentData, timers, seenPhones, now, config, scheduler>>

\* the handler goes on with a text after the axios call of handleCancellationRequest
\* or processCancellation (lines 633-654, 698-716)
GroqAnswers(t, text) ==
    /\ t \in tasks /\ t.pc = "groq"
    /\ IF t.h = "handleCancellationRequest"
       THEN /\ userReschedulingState' =
                  [userReschedulingState EXCEPT ![t.phone] = ConfirmingEntry]
            /\ tasks' = Orphan(tasks \ {t}, t.phone)
                            \cup {[t EXCEPT !.pc = "reply", !.text = text]}
       ELSE /\ UNCHANGED userReschedulingState
            /\ tasks' = (tasks \ {t}) \cup {[t EXCEPT !.pc = "reply", !.text = text]}
    /\ rejected' = NoReject
    /\ UNCHANGED <<appointmentData, timers, seenPhones, now, config, scheduler>>

\* the axios call returns (lines 633-640, 698-705)
GroqReturns(t) == GroqAnswers(t, "generated")
\* the axios call throws, or its answer has no text (lines 641-645, 706-709)
GroqFails(t) == GroqAnswers(t, "template")

\* message.reply resolves, and the handler runs to its end
ReplySent(t) ==
    /\ t \in tasks /\ t.pc = "reply"
    /\ IF t.after = "delete"
       THEN /\ userReschedulingState' = deleteEntry(userReschedulingState, t.phone)
            /\ tasks' = Orphan(tasks \ {t}, t.phone)
       ELSE IF t.after = "revert" /\ ~t.stale
       THEN \* lines 299-300: userState.stage = 'selecting_date'
            /\ userReschedulingState' =
                  [userReschedulingState EXCEPT ![t.phone].stage = "selecting_date"]
            /\ tasks' = tasks \ {t}
       ELSE /\ UNCHANGED userReschedulingState
            /\ tasks' = tasks \ {t}
    /\ rejected' = NoReject
    /\ UNCHANGED <<appointmentData, timers, seenPhones, now, config, scheduler>>

\* message.reply rejects: the catch block of the handler takes over, if it has one
ReplyFails(t) ==
    /\ t \in tasks /\ t.pc = "reply"
    /\ tasks' = (tasks \ {t}) \cup
                (IF hasCatch(t.h)
                 THEN {[t EXCEPT !.pc = "catch", !.after = "none", !.stale = FALSE,
                                 !.text = ""]}
                 ELSE {})
    /\ rejected' = IF tracing /\ ~hasCatch(t.h) THEN Reject("unhandled rejection", t.phone)
                   ELSE NoReject
    /\ UNCHANGED <<appointmentData, userReschedulingState, timers, seenPhones, now, config, scheduler>>

\* the apology of the catch block is sent, and what follows it runs
ApologySent(t) ==
    /\ t \in tasks /\ t.pc = "catch"
    /\ IF catchDeletes(t.h)
       THEN /\ userReschedulingState' = deleteEntry(userReschedulingState, t.phone)
            /\ tasks' = Orphan(tasks \ {t}, t.phone)
       ELSE /\ UNCHANGED userReschedulingState
            /\ tasks' = tasks \ {t}
    /\ rejected' = NoReject
    /\ UNCHANGED <<appointmentData, timers, seenPhones, now, config, scheduler>>

\* the apology is rejected too: the exception leaves the handler, nothing after it runs
ApologyFails(t) ==
    /\ t \in tasks /\ t.pc = "catch"
    /\ tasks' = tasks \ {t}
    /\ rejected' = IF tracing THEN Reject("unhandled rejection", t.phone) ELSE NoReject
    /\ UNCHANGED <<appointmentData, userReschedulingState, timers, seenPhones, now, config, scheduler>>

----------------------------------------------------------------------------
(* The reminder loop *)

\* let reminderInterval = null
NoInterval == 0

\* a variant of clearInterval that leaves the timer running
clearIntervalLeaks(live, handle) == live

\* clearInterval(handle)
clearInterval(live, handle) == {i \in live : i.id # handle}

\* startReminderLoop, lines 1326-1331 and 1387: the handle is one no live timer has,
\* the first run is a minute away
startReminderLoop ==
    LET live == IF reminderInterval # NoInterval
                THEN clearInterval(activeIntervals, reminderInterval)
                ELSE activeIntervals
        ids == {i.id : i \in live}
        handle == IF ids = {} THEN 1 ELSE 1 + CHOOSE m \in ids : \A k \in ids : k <= m
    IN  /\ Cardinality(live) < MaxIntervals
        /\ activeIntervals' = live \cup {[id |-> handle, due |-> now + 1]}
        /\ reminderInterval' = handle

\* line 1341: apptTime.startOf('day').diff(now.startOf('day'), 'day')
daysUntilAppointment(appointment, t) == DayOf(appointment.appointmentTime) - DayOf(t)

\* a variant that also counts the day of the appointment itself
countdownDueToday(appointment, t) ==
    /\ HourOf(t) = 11 /\ MinuteOf(t) = 30
    /\ daysUntilAppointment(appointment, t) >= 0
    /\ daysUntilAppointment(appointment, t) <= 7

\* line 1344
countdownDue(appointment, t) ==
    /\ HourOf(t) = 11 /\ MinuteOf(t) = 30
    /\ daysUntilAppointment(appointment, t) > 0
    /\ daysUntilAppointment(appointment, t) <= 7

\* a variant that compares the hour only
nearDueInHour(appointment, t) ==
    t \div MinutesPerHour = (appointment.appointmentTime - 5 * MinutesPerHour) \div MinutesPerHour

\* lines 1364-1367
nearDue(appointment, t) == t = appointment.appointmentTime - 5 * MinutesPerHour

\* a call of sendWhatsAppMessage: the reminder or hook message, to whom, in the run of
\* which minute, about the appointment at which time, the daysToGo and the text it has
Message(kind, to, at, apptTime, daysToGo, text) ==
    [kind |-> kind, to |-> to, at |-> at, apptTime |-> apptTime, daysToGo |-> daysToGo,
     text |-> text]

\* a run of the callback suspended at an await: its `now`, the appointments it has yet
\* to finish (the first is the one in hand) and the text it holds
\* a suspended run of the callback.  queue is what its for-of loop still has to go
\* through: the record of the iteration it is in, and behind it the elements the
\* iterator finds at the next indices of the array it was started on.  live tells that
\* this array is still the one appointmentData names
TickAt(t, queue, pc, text) ==
    [now |-> t, queue |-> queue, pc |-> pc, text |-> text, live |-> TRUE]
NoTick == [pc |-> "done"]

\* lines 1337-1383 from a point of the loop body on, up to the next await that waits for
\* the collaborator or the transport: the suspended run and the message handed to
\* sendWhatsAppMessage, if any
RECURSIVE RunTick(_, _, _, _)
RunTick(t, queue, point, text) ==
    IF queue = <<>> THEN [task |-> NoTick, message |-> <<>>]
    ELSE LET appointment == Head(queue)
         IN  CASE point = "countdown" ->
                    IF countdownDue(appointment, t)
                    THEN IF groqKey
                         THEN [task |-> TickAt(t, queue, "countdown groq", ""),
                               message |-> <<>>]
                         ELSE RunTick(t, queue, "countdown send", "template")
                    ELSE RunTick(t, queue, "near", "")
               [] point = "countdown send" ->
                    IF whatsappConnected
                    THEN [task |-> TickAt(t, queue, "countdown send", text),
                          message |-> <<Message("countdown", appointment.phone, t,
                                                appointment.appointmentTime,
                                                daysUntilAppointment(appointment, t), text)>>]
                    ELSE RunTick(t, queue, "near", "")
               [] point = "near" ->
                    IF nearDue(appointment, t)
                    THEN IF groqKey
                         THEN [task |-> TickAt(t, queue, "near groq", ""), message |-> <<>>]
                         ELSE RunTick(t, queue, "near send", "template")
                    ELSE RunTick(t, Tail(queue), "countdown", "")
               [] point = "near send" ->
                    IF whatsappConnected
                    THEN [task |-> TickAt(t, queue, "near send", text),
                          message |-> <<Message("near", appointment.phone, t,
                                                appointment.appointmentTime, 0, text)>>]
                    ELSE RunTick(t, Tail(queue), "countdown", "")

\* the run goes on from a point
Continue(old, t, queue, point, text) ==
    LET r == RunTick(t, queue, point, text)
        live == \A k \in old : k.live
    IN  /\ ticks' = (ticks \ old) \cup
               (IF r.task = NoTick THEN {} ELSE {[r.task EXCEPT !.live = live]})
        /\ sent' = sent \o r.message

\* the interval callback, lines 1331-1387, up to its first await
Tick(i) ==
    /\ i \in activeIntervals /\ i.due = now
    /\ activeIntervals' = (activeIntervals \ {i}) \cup {[i EXCEPT !.due = now + 1]}
    /\ IF appointmentData = <<>>
       THEN UNCHANGED <<ticks, sent>>
       ELSE Continue({}, now, appointmentData, "countdown", "")
    /\ rejected' = NoReject
    /\ UNCHANGED <<appointmentData, userReschedulingState, timers, tasks, seenPhones, now,
                   config, whatsappConnected, reminderInterval, statusSheetData, hookTimers>>

\* lines 1404-1416 and 1433-1445: the axios call returns (text "generated"), or it
\* throws and the catch block takes the template
TickGroqAnswers(k, text) ==
    /\ k \in ticks /\ k.pc \in {"countdown groq", "near groq"}
    /\ Continue({k}, k.now, k.queue,
                IF k.pc = "countdown groq" THEN "countdown send" ELSE "near send", text)
    /\ rejected' = NoReject
    /\ UNCHANGED <<appointmentData, userReschedulingState, timers, tasks, seenPhones, now,
                   config, whatsappConnected, reminderInterval, activeIntervals,
                   statusSheetData, hookTimers>>

\* sendWhatsAppMessage returns, true or false (lines 1449-1459), and the loop goes on
TickSendReturns(k) ==
    /\ k \in ticks /\ k.pc \in {"countdown send", "near send"}
    /\ IF k.pc = "countdown send"
       THEN Continue({k}, k.now, k.queue, "near", "")
       ELSE Continue({k}, k.now, Tail(k.queue), "countdown", "")
    /\ rejected' = NoReject
    /\ UNCHANGED <<appointmentData, userReschedulingState, timers, tasks, seenPhones, now,
                   config, whatsappConnected, reminderInterval, activeIntervals,
                   statusSheetData, hookTimers>>

\* whatsappClient.on("ready"), lines 87-95
Ready ==
    /\ ~whatsappConnected
    /\ whatsappConnected' = TRUE
    /\ startReminderLoop
    /\ rejected' = NoReject
    /\ UNCHANGED <<appointmentData, userReschedulingState, timers, tasks, seenPhones, now,
                   config, ticks, statusSheetData, hookTimers, sent>>

\* whatsappClient.on("disconnected"), lines 107-118
Disconnected ==
    /\ whatsappConnected
    /\ whatsappConnected' = FALSE
    /\ activeIntervals' = IF reminderInterval # NoInterval
                          THEN clearInterval(activeIntervals, reminderInterval)
                          ELSE activeIntervals
    /\ reminderInterval' = NoInterval
    /\ rejected' = NoReject
    /\ UNCHANGED <<appointmentData, userReschedulingState, timers, tasks, seenPhones, now,
                   config, ticks, statusSheetData, hookTimers, sent>>

----------------------------------------------------------------------------
(* The hook messages *)

\* sendHookMessagesToNoStatusPeople, lines 878-943: a timer for each new appointment
\* and each person with status "no", five minutes apart by person
sendHookMessagesToNoStatusPeople(h) ==
    /\ h \in hookTimers /\ h.pc = "start"
    /\ LET isNo(person) == person.status = "no"
           noStatusPeople == SelectSeq(statusSheetData, isNo)
       IN  hookTimers' = (hookTimers \ {h}) \cup
               IF Len(statusSheetData) = 0 \/ ~whatsappConnected THEN {}
               ELSE {[pc |-> "wait", newAppointments |-> <<h.newAppointments[k]>>,
                      person |-> noStatusPeople[index], due |-> now + (index - 1) * 5,
                      text |-> ""] :
                         k \in 1..Len(h.newAppointments), index \in 1..Len(noStatusPeople)}
    /\ rejected' = NoReject
    /\ UNCHANGED <<appointmentData, userReschedulingState, timers, tasks, seenPhones, now,
                   config, whatsappConnected, reminderInterval, activeIntervals, ticks,
                   statusSheetData, sent>>

\* the callback of lines 901-936 up to its first await
HookFires(h) ==
    /\ h \in hookTimers /\ h.pc = "wait" /\ now >= h.due
    /\ IF groqKey
       THEN /\ hookTimers' = (hookTimers \ {h}) \cup {[h EXCEPT !.pc = "groq"]}
            /\ UNCHANGED sent
       ELSE /\ hookTimers' = (hookTimers \ {h}) \cup
                                {[h EXCEPT !.pc = "send", !.text = "template"]}
            /\ sent' = Append(sent, Message("hook", h.person.phone, now,
                                            h.newAppointments[1].appointmentTime, 0,
                                            "template"))
    /\ rejected' = NoReject
    /\ UNCHANGED <<appointmentData, userReschedulingState, timers, tasks, seenPhones, now,
                   config, whatsappConnected, reminderInterval, activeIntervals, ticks,
                   statusSheetData>>

\* lines 915-926: the axios call returns (text "generated"), or it throws and the
\* catch block takes the template; line 932 hands the message to the transport
HookGroqAnswers(h, text) ==
    /\ h \in hookTimers /\ h.pc = "groq"
    /\ hookTimers' = (hookTimers \ {h}) \cup {[h EXCEPT !.pc = "send", !.text = text]}
    /\ sent' = Append(sent, Message("hook", h.person.phone, now,
                                    h.newAppointments[1].appointmentTime, 0, text))
    /\ rejected' = NoReject
    /\ UNCHANGED <<appointmentData, userReschedulingState, timers, tasks, seenPhones, now,
                   config, whatsappConnected, reminderInterval, activeIntervals, ticks,
                   statusSheetData>>

\* line 932: sendWhatsAppMessage returns and the callback ends
HookSendReturns(h) ==
    /\ h \in hookTimers /\ h.pc = "send"
    /\ hookTimers' = hookTimers \ {h}
    /\ rejected' = NoReject
    /\ UNCHANGED <<appointmentData, userReschedulingState, timers, tasks, seenPhones, now,
                   config, whatsappConnected, reminderInterval, activeIntervals, ticks,
                   statusSheetData, sent>>

----------------------------------------------------------------------------
(* The web endpoints *)

\* app.post("/upload"), lines 953-1138
Upload(n) ==
    LET newAppointments == newAppointmentsOf(Batch(n))
        \* lines 1064-1075: the added records whose phone was never seen
        unseen(a) == a.phone \notin seenPhones
        trulyNewAppointments ==
            SelectSeq(addedOf(newAppointments,
                              PhonesOf(preservedOf(appointmentData, newAppointments))),
                      unseen)
    IN  IF Len(newAppointments) = 0
        THEN /\ rejected' = IF tracing THEN Reject("upload", <<>>) ELSE NoReject
             /\ UNCHANGED <<appointmentData, userReschedulingState, timers, tasks, seenPhones,
                            now, config, scheduler>>
        ELSE /\ appointmentData' = smartMerge(appointmentData, newAppointments)
             /\ seenPhones' = newlySeenPhonesOf(appointmentData, newAppointments, seenPhones)
             /\ rejected' = NoReject
             /\ IF scheduling
                THEN \* lines 1099-1110: the loop restarts, and a timer of five seconds
                     \* is set for the hook messages when there are new appointments
                     /\ startReminderLoop
                     /\ hookTimers' = hookTimers \cup
                            IF Len(trulyNewAppointments) > 0
                            THEN {[pc |-> "start", newAppointments |-> trulyNewAppointments,
                                   person |-> [name |-> "", phone |-> <<>>, status |-> ""],
                                   due |-> now, text |-> ""]}
                            ELSE {}
                     /\ ticks' = {rebound(k) : k \in ticks}
                     /\ UNCHANGED <<whatsappConnected, statusSheetData, sent>>
                ELSE UNCHANGED scheduler
             /\ UNCHANGED <<userReschedulingState, timers, tasks, now, config>>

\* the body of a POST to one of the two clear routes: it carries no PIN, or one
ClearRequests == {[pin |-> Null], [pin |-> <<"1","2","3","4">>]}

\* app.post("/clear-appointments"), lines 1227-1232: req is not read
ClearAppointments(req) ==
    /\ appointmentData' = <<>>
    /\ ticks' = {rebound(k) : k \in ticks}
    /\ rejected' = NoReject
    /\ UNCHANGED <<userReschedulingState, timers, tasks, seenPhones, now, config,
                   whatsappConnected, reminderInterval, activeIntervals, statusSheetData,
                   hookTimers, sent>>

\* app.post("/clear-status"), lines 1235-1240: req is not read
ClearStatus(req) ==
    /\ statusSheetData' = <<>>
    /\ rejected' = NoReject
    /\ UNCHANGED <<appointmentData, userReschedulingState, timers, tasks, seenPhones, now,
                   config, whatsappConnected, reminderInterval, activeIntervals, ticks,
                   hookTimers, sent>>

----------------------------------------------------------------------------
(* The clock *)

AdvanceDay ==
    /\ DayOf(now) - DayOf(StartNow) < MaxDayAdvance
    /\ now' = now + MinutesPerDay
    /\ rejected' = NoReject
    /\ UNCHANGED <<appointmentData, userReschedulingState, timers, tasks, seenPhones, config, scheduler>>

\* the reminder loop is followed from Sunday 22:59 to the end of the last day
ReminderStart == AtTime(0, 22, 59)
LastMinute == AtTime(1 + MaxRunDays, 0, 0)

\* the clock moves on when the timers due in this minute have run and the
\* collaborator and the transport have answered: no callback is suspended at an
\* await, and the hook timers left are due later.  It reaches the next minute when a
\* run of the callback in that minute has a reminder to send or it is one of the
\* minutes around 11:30; otherwise the minutes up to the next such one pass, the
\* callback runs in each and finds nothing to send, and the run of the last of them
\* is still to come
Clock ==
    LET Busy(m) ==
            \/ \E k \in 1..Len(appointmentData) :
                  countdownDue(appointmentData[k], m) \/ nearDue(appointmentData[k], m)
            \/ HourOf(m) = 11 /\ MinuteOf(m) \in 29..31
        busy == {m \in (now + 2)..LastMinute : Busy(m)}
        landing == IF busy = {} THEN LastMinute
                   ELSE (CHOOSE m \in busy : \A k \in busy : m <= k) - 1
    IN  /\ now < LastMinute
        /\ ticks = {}
        /\ \A h \in hookTimers : h.pc = "wait" /\ h.due > now
        /\ \A i \in activeIntervals : i.due > now
        /\ IF Busy(now + 1)
           THEN /\ now' = now + 1
                /\ UNCHANGED activeIntervals
           ELSE /\ now' = landing
                /\ activeIntervals' = {[i EXCEPT !.due = landing] : i \in activeIntervals}
        /\ rejected' = NoReject
        /\ UNCHANGED <<appointmentData, userReschedulingState, timers, tasks, seenPhones,
                       config, whatsappConnected, reminderInterval, ticks, statusSheetData,
                       hookTimers, sent>>

----------------------------------------------------------------------------
(* The specification *)

\* lines 26 and 30: no interval, no status sheet; the dialogue specifications leave the
\* reminder loop and the hook messages aside
NotScheduling ==
    /\ scheduling = FALSE
    /\ whatsappConnected = TRUE
    /\ reminderInterval = NoInterval
    /\ activeIntervals = {}
    /\ ticks = {}
    /\ statusSheetData = <<>>
    /\ hookTimers = {}
    /\ sent = <<>>

\* lines 24-30 and 1513-1517: nothing stored, no appointments file found
Booted ==
    /\ appointmentData = <<>>
    /\ userReschedulingState = [p \in Phones |-> NoEntry]
    /\ timers = <<>>
    /\ tasks = {}
    /\ seenPhones = {}
    /\ groqKey \in BOOLEAN
    /\ rejected = NoReject
    /\ NotScheduling

Empty ==
    /\ Booted
    /\ now = StartNow
    /\ input = NoCall
    /\ output = NotReturned

Init == Empty /\ tracing = FALSE

\* the same with the history variable kept
InitTraced == Empty /\ tracing = TRUE

Next ==
    \/ \E message \in InboundMessages : OnMessage(message)
    \/ handleRescheduleRequest
    \/ handleDateSelection
    \/ handleTimeSelection
    \/ handleCancellationRequest
    \/ processCancellation
    \/ replyUnsure
    \/ \E t \in tasks : GroqReturns(t)
    \/ \E t \in tasks : GroqFails(t)
    \/ \E t \in tasks : ReplySent(t)
    \/ \E t \in tasks : ReplyFails(t)
    \/ \E t \in tasks : ApologySent(t)
    \/ \E t \in tasks : ApologyFails(t)
    \/ \E n \in BatchNames : Upload(n)
    \/ \E req \in ClearRequests : ClearAppointments(req)
    \/ AdvanceDay

Spec == Init /\ [][Next]_vars

\* the same program with the history variable kept
SpecTraced == InitTraced /\ [][Next]_vars

----------------------------------------------------------------------------
(* The availability engine and the time parser, each called on its own *)

Returned(value) == [done |-> TRUE, value |-> value]

\* getAvailableDates(numDays) on any day of two weeks
InitDates ==
    /\ Booted /\ tracing = FALSE
    /\ now \in {AtTime(d, 9, 0) : d \in 0..MaxStartDay}
    /\ input \in [fn : {"getAvailableDates"}, numDays : 0..MaxHorizon]
    /\ output = NotReturned
CallGetAvailableDates ==
    /\ input.fn = "getAvailableDates" /\ ~output.done
    /\ output' = Returned(getAvailableDates(input.numDays, DayOf(now)))
    /\ UNCHANGED <<appointmentData, userReschedulingState, timers, tasks, seenPhones, now,
                   groqKey, tracing, rejected, input, scheduling, scheduler>>
SpecDates == InitDates /\ [][CallGetAvailableDates]_vars

\* getAvailableTimeSlots(dateStr, userPhone) against stores of up to two records, with
\* appointments on the hour, a minute inside and a minute outside the hour around it,
\* before opening, near closing and on the next day
InitSlots ==
    LET SlotDates == {AtTime(3, 0, 0) \div MinutesPerDay, AtTime(4, 0, 0) \div MinutesPerDay,
                      AtTime(7, 0, 0) \div MinutesPerDay}
        SampleTimes == {AtTime(3, 14, 0), AtTime(3, 13, 1), AtTime(3, 14, 59),
                        AtTime(3, 9, 30), AtTime(3, 20, 30), AtTime(4, 14, 0)}
        SampleRecords(phone) ==
            {[name |-> "Ann", phone |-> phone, appointmentTime |-> t] : t \in SampleTimes}
        SampleStores ==
            {<<>>} \cup {<<a>> : a \in SampleRecords(PhoneA) \cup SampleRecords(PhoneB)}
                   \cup {<<a, b>> : a \in SampleRecords(PhoneA), b \in SampleRecords(PhoneB)}
                   \cup {<<b, a>> : a \in SampleRecords(PhoneA), b \in SampleRecords(PhoneB)}
    IN  /\ appointmentData \in SampleStores
        /\ userReschedulingState = [p \in Phones |-> NoEntry]
        /\ timers = <<>> /\ tasks = {} /\ seenPhones = {}
        /\ groqKey = FALSE /\ tracing = FALSE /\ rejected = NoReject
        /\ NotScheduling
        /\ now = StartNow
        /\ input \in [fn : {"getAvailableTimeSlots"}, date : SlotDates,
                       userPhone : {PhoneA, PhoneB, Stranger}]
        /\ output = NotReturned
CallGetAvailableTimeSlots ==
    /\ input.fn = "getAvailableTimeSlots" /\ ~output.done
    /\ output' = Returned(getAvailableTimeSlots(input.date, input.userPhone, appointmentData))
    /\ UNCHANGED <<appointmentData, userReschedulingState, timers, tasks, seenPhones, now,
                   groqKey, tracing, rejected, input, scheduling, scheduler>>
SpecSlots == InitSlots /\ [][CallGetAvailableTimeSlots]_vars

\* lines 337-542 of handleTimeSelection: the reply resolved against the offered slots.
\* The replies are the texts HH:MM on the hour and the half hour and the shorter forms
\* contacts type; the offered lists are those getAvailableTimeSlots can return for some
\* table of business hours: one or two slots of one day in the order of the clock,
\* midnight, noon, morning and evening among them
TwoDigits(n) == <<DigitChars[(n \div 10) + 1], DigitChars[(n % 10) + 1]>>
ClockText(h, m) == TwoDigits(h) \o <<":">> \o TwoDigits(m)
InitParser ==
    LET ShortTexts == {
            <<"6",":">>, <<"6">>, <<"9">>, <<"1","2">>, <<"0">>,
            <<"9",":","3","0">>, <<"9",":","1","0">>, <<"9",":","1","5">>,
            <<"9",":","4","5">>, <<"9",":","1","6">>, <<"2","1",":","1","0">>,
            <<"1","2",":","4","4">>, <<"3",":","4","5">>, <<"2","p","m">>, <<"9","P","M">>,
            <<"9"," ","a","m">>, <<"1","2","a","m">>, <<"1","2","p","m">>,
            <<"6",":","p","m">>, <<"9",":","1","0","p","m">>,
            <<"9",":","2","0"," ","A","M">>, <<" ","9",":","7","0">>, <<"n","o","o","n">> }
        OfferedTimes == {AtTime(3, h, m) : h \in {0, 6, 9, 12, 14, 18, 21}, m \in {0, 30}}
        OfferedLists ==
            {<<a>> : a \in OfferedTimes}
            \cup {l \in {<<a, b>> : a, b \in OfferedTimes} : l[1] < l[2]}
    IN  /\ Booted /\ groqKey = FALSE /\ tracing = FALSE
        /\ now = StartNow
        /\ input \in [fn : {"selectTime"},
                       messageContent : {ClockText(h, m) : h \in 0..23, m \in {0, 30}}
                                        \cup ShortTexts,
                       availableTimeSlots : OfferedLists]
        /\ output = NotReturned
\* the locals of the handler when it has resolved the reply: the five of the parse,
\* candidateHours where the branch of line 468 ran, selectedTime after the exact match
\* (exact), whether the block of line 503 ran (fuzzy) and selectedTime after it (value)
CallSelectTime ==
    /\ input.fn = "selectTime" /\ ~output.done
    /\ LET p == parseTimeInput(input.messageContent)
           exact == IF p.matchedFormat THEN exactMatch(p, input.availableTimeSlots) ELSE Null
       IN  output' = [done |-> TRUE,
                      matchedFormat |-> p.matchedFormat,
                      parsed |-> p,
                      candidateHours |->
                          IF p.matchedFormat /\ ~p.is24HourFormat /\ p.matchedPeriod = NoPeriod
                          THEN candidateHours(p.matchedHour) ELSE <<>>,
                      exact |-> exact,
                      fuzzy |-> p.matchedFormat /\ exact = Null,
                      value |-> IF p.matchedFormat
                                THEN selectTime(p, input.availableTimeSlots) ELSE Null]
    /\ UNCHANGED <<appointmentData, userReschedulingState, timers, tasks, seenPhones, now,
                   groqKey, tracing, rejected, input, scheduling, scheduler>>
SpecParser == InitParser /\ [][CallSelectTime]_vars

----------------------------------------------------------------------------
(* The reminder loop and the hook messages, followed for a day *)

\* lines 24-30 and 1513-1517: the files of an earlier run are loaded, the client is not
\* ready yet
InitReminders ==
    /\ appointmentData \in
          {<<>>, <<Row("Ann", PhoneA, AtTime(1, 16, 30))>>,
           <<Row("Ann", PhoneA, AtTime(9, 14, 0)), Row("Bob", PhoneB, AtTime(4, 14, 0))>>}
    /\ seenPhones = PhonesOf(appointmentData)
    /\ statusSheetData \in
          {<<>>, <<[name |-> "Yara", phone |-> <<"7">>, status |-> "yes"],
                   [name |-> "Nora", phone |-> <<"8">>, status |-> "no"]>>}
    /\ userReschedulingState = [p \in Phones |-> NoEntry]
    /\ timers = <<>> /\ tasks = {}
    /\ groqKey \in BOOLEAN /\ tracing = FALSE /\ rejected = NoReject
    /\ input = NoCall /\ output = NotReturned
    /\ now = ReminderStart
    /\ scheduling = TRUE
    /\ whatsappConnected = FALSE
    /\ reminderInterval = NoInterval /\ activeIntervals = {}
    /\ ticks = {} /\ hookTimers = {} /\ sent = <<>>

NextReminders ==
    \/ \E i \in activeIntervals : Tick(i)
    \/ \E k \in ticks, text \in {"generated", "template"} : TickGroqAnswers(k, text)
    \/ \E k \in ticks : TickSendReturns(k)
    \/ Ready
    \/ Disconnected
    \/ \E n \in {"A", "Dup", "Invalid"} : Upload(n)
    \/ \E h \in hookTimers : sendHookMessagesToNoStatusPeople(h)
    \/ \E h \in hookTimers : HookFires(h)
    \/ \E h \in hookTimers, text \in {"generated", "template"} : HookGroqAnswers(h, text)
    \/ \E h \in hookTimers : HookSendReturns(h)
    \/ Clock

SpecReminders == InitReminders /\ [][NextReminders]_vars

\* the same loop with the client ready since the start and no restart: the callback
\* runs in every minute.  The appointments are of yesterday, of today (their near
\* reminder due at 11:30, at 11:31, or yesterday at 23:00), of tomorrow at 04:00 and
\* in 3, 7 and 8 days
InitSteady ==
    LET ReminderTimes ==
            {AtTime(0, 14, 0), AtTime(1, 16, 30), AtTime(1, 16, 31), AtTime(1, 4, 0),
             AtTime(2, 4, 0), AtTime(4, 14, 0), AtTime(8, 14, 0), AtTime(9, 14, 0)}
    IN  /\ appointmentData \in
              {<<>>} \cup {<<Row("Ann", PhoneA, t)>> : t \in ReminderTimes}
                     \cup {<<Row("Ann", PhoneA, t), Row("Bob", PhoneB, u)>> :
                               t \in ReminderTimes, u \in {AtTime(4, 14, 0), AtTime(1, 16, 30)}}
        /\ seenPhones = PhonesOf(appointmentData)
        /\ statusSheetData = <<>>
        /\ userReschedulingState = [p \in Phones |-> NoEntry]
        /\ timers = <<>> /\ tasks = {}
        /\ groqKey \in BOOLEAN /\ tracing = FALSE /\ rejected = NoReject
        /\ input = NoCall /\ output = NotReturned
        /\ now = ReminderStart
        /\ scheduling = TRUE
        /\ whatsappConnected = TRUE
        /\ reminderInterval = 1
        /\ activeIntervals = {[id |-> 1, due |-> ReminderStart + 1]}
        /\ ticks = {} /\ hookTimers = {} /\ sent = <<>>

NextSteady ==
    \/ \E i \in activeIntervals : Tick(i)
    \/ \E k \in ticks, text \in {"generated", "template"} : TickGroqAnswers(k, text)
    \/ \E k \in ticks : TickSendReturns(k)
    \/ Clock

SpecSteady == InitSteady /\ [][NextSteady]_vars

----------------------------------------------------------------------------
(* The places that call the text generation service, followed together: a contact  *)
(* cancels, the reminders of Monday 11:30 and 11:31 fall due, an import brings a   *)
(* new contact                                                                     *)

InitCallSites ==
    /\ appointmentData \in {<<Row("Ann", PhoneA, AtTime(4, 14, 0))>>,
                            <<Row("Ann", PhoneA, AtTime(1, 16, 31))>>,
                            <<Row("Ann", PhoneA, AtTime(4, 14, 0)),
                              Row("Bob", PhoneB, AtTime(5, 10, 0))>>}
    /\ seenPhones = PhonesOf(appointmentData)
    /\ statusSheetData \in
          {<<>>, <<[name |-> "Yara", phone |-> <<"7">>, status |-> "yes"],
                   [name |-> "Nora", phone |-> <<"8">>, status |-> "no"]>>}
    /\ userReschedulingState = [p \in Phones |-> NoEntry]
    /\ timers = <<>> /\ tasks = {}
    /\ groqKey \in BOOLEAN /\ tracing = FALSE /\ rejected = NoReject
    /\ input = NoCall /\ output = NotReturned
    /\ now = AtTime(1, 11, 28)
    /\ scheduling = TRUE
    /\ whatsappConnected = TRUE
    /\ reminderInterval = 1 /\ activeIntervals = {[id |-> 1, due |-> AtTime(1, 11, 29)]}
    /\ ticks = {} /\ hookTimers = {} /\ sent = <<>>

NextCallSites ==
    \/ \E message \in [from : {PhoneA},
                        body : {<<"c","a","n","c","e","l">>, <<"c","o","n","f","i","r","m">>},
                        hasMedia : {FALSE}] : OnMessage(message)
    \/ handleCancellationRequest
    \/ processCancellation
    \/ \E t \in tasks : GroqReturns(t)
    \/ \E t \in tasks : GroqFails(t)
    \/ \E t \in tasks : ReplySent(t)
    \/ \E t \in tasks : ReplyFails(t)
    \/ \E t \in tasks : ApologySent(t)
    \/ \E t \in tasks : ApologyFails(t)
    \/ \E i \in activeIntervals : Tick(i)
    \/ \E k \in ticks, text \in {"generated", "template"} : TickGroqAnswers(k, text)
    \/ \E k \in ticks : TickSendReturns(k)
    \/ Upload("Dup")
    \/ \E req \in ClearRequests : ClearAppointments(req)
    \/ \E req \in ClearRequests : ClearStatus(req)
    \/ \E h \in hookTimers : sendHookMessagesToNoStatusPeople(h)
    \/ \E h \in hookTimers : HookFires(h)
    \/ \E h \in hookTimers, text \in {"generated", "template"} : HookGroqAnswers(h, text)
    \/ \E h \in hookTimers : HookSendReturns(h)
    \/ Clock

SpecCallSites == InitCallSites /\ [][NextCallSites]_vars

----------------------------------------------------------------------------
(* Two contacts that write at the same time *)

TwoPhoneMessages ==
    [from : {PhoneA, PhoneB},
     body : {<<"r","e","s","c","h","e","d","u","l","e">>, <<"1">>, <<"2","p","m">>,
             <<"c","a","n","c","e","l">>, <<"c","o","n","f","i","r","m">>},
     hasMedia : {FALSE}]

InitTwoPhones ==
    /\ appointmentData = <<Row("Ann", PhoneA, AtTime(3, 14, 0)),
                           Row("Bob", PhoneB, AtTime(3, 16, 0))>>
    /\ seenPhones = {PhoneA, PhoneB}
    /\ userReschedulingState = [p \in Phones |-> NoEntry]
    /\ timers = <<>> /\ tasks = {}
    /\ groqKey = FALSE /\ tracing = FALSE /\ rejected = NoReject
    /\ NotScheduling
    /\ now = StartNow
    /\ input = NoCall /\ output = NotReturned

NextTwoPhones ==
    \/ \E message \in TwoPhoneMessages : OnMessage(message)
    \/ handleRescheduleRequest
    \/ handleDateSelection
    \/ handleTimeSelection
    \/ handleCancellationRequest
    \/ processCancellation
    \/ replyUnsure
    \/ \E t \in tasks : ReplySent(t)
    \/ \E t \in tasks : ReplyFails(t)
    \/ \E t \in tasks : ApologySent(t)
    \/ \E t \in tasks : ApologyFails(t)

SpecTwoPhones == InitTwoPhones /\ [][NextTwoPhones]_vars

----------------------------------------------------------------------------
(* A contact that writes again before its last message was handled *)

BurstMessages ==
    [from : {PhoneA},
     body : {<<"r","e","s","c","h","e","d","u","l","e">>, <<"1">>, <<"2","p","m">>,
             <<"6","p","m">>, <<"c","a","n","c","e","l">>, <<"c","o","n","f","i","r","m">>},
     hasMedia : {FALSE}]

NextBurst ==
    \/ \E message \in BurstMessages : OnMessageWithin(message, MaxBurst)
    \/ handleRescheduleRequest
    \/ handleDateSelection
    \/ handleTimeSelection
    \/ handleCancellationRequest
    \/ processCancellation
    \/ replyUnsure
    \/ \E t \in tasks : ReplySent(t)
    \/ \E t \in tasks : ReplyFails(t)
    \/ \E t \in tasks : ApologySent(t)
    \/ \E t \in tasks : ApologyFails(t)

SpecBurst == InitTwoPhones /\ [][NextBurst]_vars

----------------------------------------------------------------------------
(* Properties of the store and of the upload merge *)

RecordOf(appts, phone) == appts[findIndex(appts, phone)]

\* C1: the store never holds two records with the same phone, whatever uploads
\* (also of a sheet that lists a phone twice), dialogues, cancellations and clears
\* came before.
C1_OneRecordPerPhone ==
    \A i, j \in 1..Len(appointmentData) :
        appointmentData[i].phone = appointmentData[j].phone => i = j

\* the sheet that lists phone 1 twice and phone 2 twice was merged into an empty store
C1_Witness ==
    /\ Len(appointmentData) = 2
    /\ appointmentData[1] = FormatRow(BatchDup[1])
    /\ appointmentData[2] = FormatRow(BatchDup[3])

\* C2: a dialogue entry exists only for a phone that has a record in the store,
\* in every state, the steps inside a cancellation included.
C2_EntryOnlyForStoredPhone ==
    \A p \in Phones :
        userReschedulingState[p] # NoEntry => HasAppointment(appointmentData, p)

\* C3: an upload leaves the appointment time of every phone already in the store
\* as it was, whatever time the sheet lists for it.
C3_UploadKeepsTimes ==
    [][\A n \in BatchNames :
          Upload(n) =>
             \A k \in 1..Len(appointmentData) :
                /\ HasAppointment(appointmentData', appointmentData[k].phone)
                /\ RecordOf(appointmentData', appointmentData[k].phone).appointmentTime
                      = appointmentData[k].appointmentTime]_vars

\* the record of BatchA stands before the one BatchDup added: BatchDup, which lists
\* another time for phone 1, was merged over it and the stored time won
C3_Witness ==
    /\ Len(appointmentData) = 2
    /\ appointmentData[1] = FormatRow(BatchA[1])
    /\ appointmentData[1].appointmentTime # BatchDup[1].appointmentTime
    /\ appointmentData[2] = FormatRow(BatchDup[3])

\* the digits-only phones of the valid rows of a sheet
SheetPhones(rawData) ==
    {OnlyDigits(rawData[k].phone) : k \in {i \in 1..Len(rawData) : IsValidRow(rawData[i])}}
\* the first valid row of the sheet for a phone
FirstRowFor(rawData, phone) ==
    rawData[CHOOSE k \in 1..Len(rawData) :
                /\ IsValidRow(rawData[k]) /\ OnlyDigits(rawData[k].phone) = phone
                /\ \A j \in 1..(k - 1) :
                      ~(IsValidRow(rawData[j]) /\ OnlyDigits(rawData[j].phone) = phone)]

\* C4: after an upload with at least one valid row the phones of the store are those
\* it had plus those of the sheet; a phone the sheet does not list keeps its record,
\* and a phone only the sheet lists gets the record of its first row.
C4_UploadIsUnion ==
    [][\A n \in BatchNames :
          (Upload(n) /\ SheetPhones(Batch(n)) # {}) =>
             /\ PhonesOf(appointmentData') =
                   PhonesOf(appointmentData) \cup SheetPhones(Batch(n))
             /\ \A p \in PhonesOf(appointmentData) \ SheetPhones(Batch(n)) :
                   RecordOf(appointmentData', p) = RecordOf(appointmentData, p)
             /\ \A p \in SheetPhones(Batch(n)) \ PhonesOf(appointmentData) :
                   LET row == FirstRowFor(Batch(n), p)
                   IN  RecordOf(appointmentData', p) =
                          [name |-> row.name, phone |-> p,
                           appointmentTime |-> row.appointmentTime]]_vars

\* the six records of the batch "Block" were added behind a record the sheet does not list
C4_Witness ==
    /\ Len(appointmentData) = 7
    /\ appointmentData[1].phone = PhoneA
    /\ \A k \in 2..7 : appointmentData[k].phone \in Blockers

----------------------------------------------------------------------------
(* Properties of the dialogue *)

\* C5: a message from a phone without a record in the store, or a message that
\* carries media, is ignored: the step leaves the store and every dialogue entry as
\* they were, sets no timer and starts no handler (so that no reply is sent for it).
C5_IgnoredMessages ==
    [][\A m \in InboundMessages :
          ((~HasAppointment(appointmentData, m.from) \/ m.hasMedia) /\ OnMessage(m)) =>
             UNCHANGED <<appointmentData, userReschedulingState, timers, tasks>>]_vars

\* a media message of a contact in the middle of choosing a date was turned away
C5_Witness ==
    /\ rejected = Reject("media", PhoneA)
    /\ userReschedulingState[PhoneA].stage = "selecting_date"

\* the steps of one handler: its start and its continuations
StepOf(h, start) ==
    \/ start
    \/ \E t \in tasks :
          /\ t.h = h
          /\ \/ GroqReturns(t) \/ GroqFails(t) \/ ReplySent(t) \/ ReplyFails(t)
             \/ ApologySent(t) \/ ApologyFails(t)

\* C6: a message with "cancel" from an Idle contact only sets the timer of the
\* cancellation request, whose handler leaves the store alone and at most makes the
\* entry of its phone a ConfirmingCancellation entry; a record leaves the store only
\* by a clear or by the cancellation of its phone, and that cancellation is only ever
\* scheduled for a confirming message that arrived in stage ConfirmingCancellation.
C6_CancelOnlyAfterConfirmation ==
    [][/\ \A m \in InboundMessages :
             ( /\ HasAppointment(appointmentData, m.from) /\ ~m.hasMedia
               /\ userReschedulingState[m.from] = NoEntry
               /\ MentionsCancel(toLowerCase(m.body))
               /\ OnMessage(m) ) =>
                /\ timers' = Append(timers, Timer("handleCancellationRequest", m.from, <<>>))
                /\ UNCHANGED <<appointmentData, userReschedulingState, tasks>>
       /\ StepOf("handleCancellationRequest", handleCancellationRequest) =>
             /\ appointmentData' = appointmentData
             /\ \A q \in Phones :
                   \/ userReschedulingState'[q] = userReschedulingState[q]
                   \/ /\ userReschedulingState'[q] = ConfirmingEntry
                      /\ \/ Fires("handleCancellationRequest") /\ Head(timers).phone = q
                         \/ \E t \in tasks : t.h = "handleCancellationRequest" /\ t.phone = q
       /\ \A p \in Phones :
             (HasAppointment(appointmentData, p) /\ ~HasAppointment(appointmentData', p)) =>
                \/ \E req \in ClearRequests : ClearAppointments(req)
                \/ Fires("processCancellation") /\ Head(timers).phone = p /\ processCancellation
       /\ (Len(timers') > Len(timers) /\ timers'[Len(timers')].h = "processCancellation") =>
             \E m \in InboundMessages :
                /\ OnMessage(m)
                /\ timers'[Len(timers')].phone = m.from
                /\ userReschedulingState[m.from].stage = "confirming_cancellation"
                /\ IsConfirmation(toLowerCase(m.body))]_vars

\* a confirmed cancellation has taken the record out of the store
C6_Witness ==
    \E t \in tasks :
        /\ t.h = "processCancellation" /\ t.kind = "farewell"
        /\ ~HasAppointment(appointmentData, t.phone)

\* C7: when the cancellation a confirming message asked for runs, the record of the
\* phone leaves the store and every other record stays as it was; when the handler
\* has run to its end the phone has no entry any more.
C7_ConfirmedCancellationEndsIdle ==
    [][/\ processCancellation =>
             LET p == Head(timers).phone
             IN  /\ ~HasAppointment(appointmentData', p)
                 /\ \A q \in PhonesOf(appointmentData) \ {p} :
                       /\ HasAppointment(appointmentData', q)
                       /\ RecordOf(appointmentData', q) = RecordOf(appointmentData, q)
       /\ \A t \in tasks :
             (t.h = "processCancellation" /\ (ReplySent(t) \/ ApologySent(t) \/ ApologyFails(t))) =>
                userReschedulingState'[t.phone] = NoEntry]_vars

\* seq lists the numbers of S in increasing order
IsSortedSeqOf(seq, S) ==
    /\ Len(seq) = Cardinality(S)
    /\ \A i \in 1..Len(seq) : seq[i] \in S
    /\ \A i, j \in 1..Len(seq) : i < j => seq[i] < seq[j]

\* the open days among the horizonDays days after today
OpenDaysAhead(horizonDays, today) ==
    {d \in (today + 1)..(today + horizonDays) : BUSINESS_HOURS[d % 7].open # Null}

\* a text message of a phone that has a record mentions "reschedule" while the contact
\* is Idle or in ConfirmingCancellation without a confirming phrase
AsksReschedule(m) ==
    /\ HasAppointment(appointmentData, m.from) /\ ~m.hasMedia
    /\ MentionsReschedule(toLowerCase(m.body))
    /\ \/ userReschedulingState[m.from] = NoEntry
       \/ /\ userReschedulingState[m.from].stage = "confirming_cancellation"
          /\ ~IsConfirmation(toLowerCase(m.body))

\* the claim C8 as the specification words it: every such message starts the
\* reschedule request, which leaves the contact in SelectingDate with the candidate
\* dates of that moment, or Idle when there are none.
C8_AsStated ==
    [][/\ \A m \in InboundMessages :
             (AsksReschedule(m) /\ OnMessage(m)) =>
                timers' = Append(timers, Timer("handleRescheduleRequest", m.from, <<>>))
       /\ handleRescheduleRequest =>
             LET p == Head(timers).phone
                 days == OpenDaysAhead(7, DayOf(now))
             IN  IF days = {}
                 THEN userReschedulingState'[p] = NoEntry
                 ELSE /\ userReschedulingState'[p].stage = "selecting_date"
                      /\ IsSortedSeqOf(userReschedulingState'[p].availableDates, days)]_vars

\* C8: such a message starts the reschedule request unless the contact is Idle and
\* the message also mentions "cancel"; when the request runs and the phone still has
\* a record, the contact is in SelectingDate with the open days among the next seven
\* in order, of which there is at least one; without a record the entry stays as it is.
C8_RescheduleOffersDates ==
    [][/\ \A m \in InboundMessages :
             ( /\ AsksReschedule(m)
               /\ ~(userReschedulingState[m.from] = NoEntry /\ MentionsCancel(toLowerCase(m.body)))
               /\ OnMessage(m) ) =>
                timers' = Append(timers, Timer("handleRescheduleRequest", m.from, <<>>))
       /\ handleRescheduleRequest =>
             LET p == Head(timers).phone
                 days == OpenDaysAhead(7, DayOf(now))
             IN  IF HasAppointment(appointmentData, p)
                 THEN /\ days # {}
                      /\ userReschedulingState'[p].stage = "selecting_date"
                      /\ IsSortedSeqOf(userReschedulingState'[p].availableDates, days)
                      /\ userReschedulingState'[p].availableTimeSlots = Undefined
                 ELSE userReschedulingState'[p] = userReschedulingState[p]]_vars

\* a contact with a record has been offered dates on a later day than the one the
\* model starts on, and the list is on its way
C8_Witness ==
    /\ DayOf(now) > DayOf(StartNow)
    /\ HasAppointment(appointmentData, PhoneA)
    /\ userReschedulingState[PhoneA].stage = "selecting_date"
    /\ \E t \in tasks : t.h = "handleRescheduleRequest" /\ t.kind = "date list"

\* the times of the day that start a slot: from opening, one slot apart, before closing
SlotStarts(date) ==
    LET bh == BUSINESS_HOURS[date % 7]
    IN  IF bh.open = Null THEN {}
        ELSE {t \in {AtTime(date, bh.open[1], bh.open[2]) + k * TIME_SLOT_DURATION : k \in 0..23} :
                 t < AtTime(date, bh.close[1], bh.close[2])}
\* those that no appointment of another phone on that day comes within an hour of
FreeSlotStarts(date, excludePhone, appts) ==
    {t \in SlotStarts(date) :
        \A k \in 1..Len(appts) :
           (appts[k].phone # excludePhone /\ appts[k].appointmentTime \div 1440 = date) =>
              (appts[k].appointmentTime - t >= 60 \/ t - appts[k].appointmentTime >= 60)}

\* the handler of a date selection runs for a contact in SelectingDate whose message
\* is the number n of an offered date
SelectsDate(p, n) ==
    /\ Fires("handleDateSelection") /\ Head(timers).phone = p
    /\ userReschedulingState[p].stage = "selecting_date"
    /\ LET body == trim(Head(timers).content)
       IN  body # <<>> /\ AllDigits(body) /\ DigitsValue(body) = n
    /\ n \in 1..Len(userReschedulingState[p].availableDates)

\* C9: when the handler runs for the number of an offered date that has a free slot,
\* the contact is in SelectingTime with that date selected and the free slots of the
\* date, taken against the store of that moment with its own record left out, in order.
C9_DateSelectionOffersSlots ==
    [][\A p \in Phones : \A n \in 1..7 :
          ( /\ SelectsDate(p, n)
            /\ FreeSlotStarts(userReschedulingState[p].availableDates[n], p, appointmentData) # {}
            /\ handleDateSelection ) =>
             LET date == userReschedulingState[p].availableDates[n]
             IN  /\ userReschedulingState'[p].stage = "selecting_time"
                 /\ userReschedulingState'[p].selectedDate = date
                 /\ userReschedulingState'[p].availableDates = userReschedulingState[p].availableDates
                 /\ IsSortedSeqOf(userReschedulingState'[p].availableTimeSlots,
                                  FreeSlotStarts(date, p, appointmentData))]_vars

\* the contact chose the day of its own appointment, whose hour is among the slots
\* offered while the hour of another phone's appointment is not
C9_Witness ==
    /\ userReschedulingState[PhoneA].stage = "selecting_time"
    /\ HasAppointment(appointmentData, PhoneA) /\ HasAppointment(appointmentData, PhoneB)
    /\ userReschedulingState[PhoneA].availableTimeSlots # Undefined
    /\ userReschedulingState[PhoneA].selectedDate =
          DayOf(RecordOf(appointmentData, PhoneA).appointmentTime)
    /\ \E k \in 1..Len(userReschedulingState[PhoneA].availableTimeSlots) :
          userReschedulingState[PhoneA].availableTimeSlots[k] =
             RecordOf(appointmentData, PhoneA).appointmentTime
    /\ \A k \in 1..Len(userReschedulingState[PhoneA].availableTimeSlots) :
          userReschedulingState[PhoneA].availableTimeSlots[k] #
             RecordOf(appointmentData, PhoneB).appointmentTime

\* C10: when the handler runs for the number of an offered date that has no free
\* slot, the contact stays in SelectingDate with the same dates; its stage does not
\* become SelectingTime.
C10_NoSlotsStaysSelectingDate ==
    [][\A p \in Phones : \A n \in 1..7 :
          ( /\ SelectsDate(p, n)
            /\ FreeSlotStarts(userReschedulingState[p].availableDates[n], p, appointmentData) = {}
            /\ handleDateSelection ) =>
             /\ userReschedulingState'[p].stage = "selecting_date"
             /\ userReschedulingState'[p].availableDates = userReschedulingState[p].availableDates]_vars

----------------------------------------------------------------------------
(* Properties of the dialogue: unrecognised input, rescheduling, faults *)

\* the handler of a date selection runs for a contact in SelectingDate whose message
\* is not the number of an offered date
RejectsDate(p) ==
    /\ Fires("handleDateSelection") /\ Head(timers).phone = p
    /\ userReschedulingState[p].stage = "selecting_date"
    /\ LET body == trim(Head(timers).content)
       IN  ~ ( /\ body # <<>> /\ AllDigits(body)
               /\ DigitsValue(body) \in 1..Len(userReschedulingState[p].availableDates) )

\* the handler of a time selection runs for a contact in SelectingTime whose message
\* the parser does not understand or resolves to none of the offered slots
RejectsTime(p) ==
    /\ Fires("handleTimeSelection") /\ Head(timers).phone = p
    /\ userReschedulingState[p].stage = "selecting_time"
    /\ userReschedulingState[p].availableTimeSlots # Undefined
    /\ LET parsed == parseTimeInput(Head(timers).content)
       IN  \/ ~parsed.matchedFormat
           \/ selectTime(parsed, userReschedulingState[p].availableTimeSlots) = Null

\* the replies that tell a contact its input was not recognised
UnrecognisedReplies == {"unsure", "invalid", "bad format", "no match"}

\* C11: an unrecognised reply in ConfirmingCancellation, a reply in SelectingDate that
\* is not the number of an offered date and a reply in SelectingTime that does not
\* parse or matches no offered slot leave every dialogue entry and the store as they
\* were, from the start of the handler to its end.
C11_UnrecognisedInputChangesNothing ==
    [][/\ replyUnsure => UNCHANGED <<userReschedulingState, appointmentData>>
       /\ \A p \in Phones :
             ((RejectsDate(p) /\ handleDateSelection) \/ (RejectsTime(p) /\ handleTimeSelection))
                => UNCHANGED <<userReschedulingState, appointmentData>>
       /\ \A t \in tasks :
             ( /\ t.kind \in UnrecognisedReplies
               /\ ReplySent(t) \/ ReplyFails(t) \/ ApologySent(t) \/ ApologyFails(t) )
                => UNCHANGED <<userReschedulingState, appointmentData>>]_vars

\* the handler of a time selection runs for a contact in SelectingTime whose message
\* resolves to an offered slot
AcceptsTime(p) ==
    /\ Fires("handleTimeSelection") /\ Head(timers).phone = p
    /\ userReschedulingState[p].stage = "selecting_time"
    /\ userReschedulingState[p].availableTimeSlots # Undefined
    /\ LET parsed == parseTimeInput(Head(timers).content)
       IN  /\ parsed.matchedFormat
           /\ selectTime(parsed, userReschedulingState[p].availableTimeSlots) # Null
ResolvedSlot(p) ==
    selectTime(parseTimeInput(Head(timers).content),
               userReschedulingState[p].availableTimeSlots)[1]

\* C12: when the handler runs for a time that resolves to an offered slot, the record
\* of the phone gets that slot, one of its availableTimeSlots, as appointmentTime, its
\* name and phone and every other record stay as they were, and when the handler has
\* run to its end the phone has no entry any more.
C12_RescheduleCommitsAndEndsIdle ==
    [][/\ \A p \in Phones :
             (AcceptsTime(p) /\ HasAppointment(appointmentData, p) /\ handleTimeSelection) =>
                /\ \E k \in 1..Len(userReschedulingState[p].availableTimeSlots) :
                      userReschedulingState[p].availableTimeSlots[k] = ResolvedSlot(p)
                /\ Len(appointmentData') = Len(appointmentData)
                /\ \A k \in 1..Len(appointmentData) :
                      appointmentData'[k] =
                         IF appointmentData[k].phone = p
                         THEN [appointmentData[k] EXCEPT !.appointmentTime = ResolvedSlot(p)]
                         ELSE appointmentData[k]
       /\ \A t \in tasks :
             ( /\ t.h = "handleTimeSelection" /\ t.kind = "rescheduled"
               /\ ReplySent(t) \/ ApologySent(t) \/ ApologyFails(t) )
                => userReschedulingState'[t.phone] = NoEntry]_vars

\* the stage handlers, each of which runs inside try/catch
StageHandlers ==
    {"handleRescheduleRequest", "handleCancellationRequest", "handleDateSelection",
     "handleTimeSelection", "processCancellation"}

\* C13: when a stage handler in which an exception was raised, a rejected reply
\* included, has run to its end, its phone has no dialogue entry.
C13_FaultLeavesNoEntry ==
    [][\A t \in tasks :
          ( /\ t.h \in StageHandlers /\ t.pc = "catch"
            /\ ApologySent(t) \/ ApologyFails(t) )
             => userReschedulingState'[t.phone] = NoEntry]_vars

\* the entry a handler leaves when the reply named by `kind` is sent
EntryAfterReply(kind, entry) ==
    IF kind \in {"rescheduled", "farewell"} THEN NoEntry
    ELSE IF kind = "no slots" THEN [entry EXCEPT !.stage = "selecting_date"]
    ELSE entry

\* C14: a failure of the text generation call or of a send does not end a dialogue:
\* the cancellation request reaches ConfirmingCancellation with or without the text
\* generation call, and a handler whose reply was rejected and which has sent its
\* apology leaves, at its end, the entry it leaves when the reply is sent.
C14_CollaboratorFailureKeepsDialogue ==
    [][/\ \A p \in Phones :
             ( /\ Fires("handleCancellationRequest") /\ Head(timers).phone = p
               /\ HasAppointment(appointmentData, p) /\ ~groqKey
               /\ handleCancellationRequest )
                => userReschedulingState'[p] = ConfirmingEntry
       /\ \A t \in tasks :
             ( /\ t.h = "handleCancellationRequest" /\ t.pc = "groq"
               /\ GroqReturns(t) \/ GroqFails(t) )
                => userReschedulingState'[t.phone] = ConfirmingEntry
       /\ \A t \in tasks :
             (t.pc = "catch" /\ t.kind # "error" /\ ApologySent(t))
                => userReschedulingState'[t.phone] =
                      EntryAfterReply(t.kind, userReschedulingState[t.phone])]_vars

\* C15: no exception leaves a delayed handler: no rejection of a reply is left
\* without a catch block that takes it.
C15_NoExceptionEscapes == rejected.what # "unhandled rejection"

----------------------------------------------------------------------------
(* Properties of the availability engine *)

\* C16: for every start day and horizon h, the dates getAvailableDates(h) returns are
\* exactly the days among tomorrow .. tomorrow+h-1 whose weekday has open hours, in
\* chronological order; no closed weekday is among them; and with Sunday closed and
\* Monday to Saturday open, a horizon of 7 gives exactly 6 dates.
C16_CandidateDates ==
    (input.fn = "getAvailableDates" /\ output.done) =>
        /\ IsSortedSeqOf(output.value, OpenDaysAhead(input.numDays, now \div 1440))
        /\ \A i \in 1..Len(output.value) : BUSINESS_HOURS[output.value[i] % 7].open # Null
        /\ input.numDays = 7 => Len(output.value) = 6

\* on a Saturday with horizon 7 the list has six dates, the first of them the Monday
\* after the skipped Sunday
C16_Witness ==
    /\ input.fn = "getAvailableDates" /\ output.done
    /\ (now \div 1440) % 7 = 6 /\ input.numDays = 7
    /\ Len(output.value) = 6
    /\ output.value[1] = (now \div 1440) + 2
    /\ \A i \in 1..6 : output.value[i] # (now \div 1440) + 1

\* the slots of a day in the order of the clock
AllSlotsInOrder(date, seq) == IsSortedSeqOf(seq, SlotStarts(date))

\* C17: for an open day the generated slots start at the opening time, are exactly one
\* slot duration (60 minutes) apart and none is at or after closing; the list returned
\* is a chronologically ordered subsequence of them (all of them when nothing is
\* booked); for a closed day the list is empty.
C17_GeneratedSlots ==
    (input.fn = "getAvailableTimeSlots" /\ output.done) =>
        LET v == output.value
            bh == BUSINESS_HOURS[input.date % 7]
            open == input.date * 1440 + bh.open[1] * 60 + bh.open[2]
            close == input.date * 1440 + bh.close[1] * 60 + bh.close[2]
        IN  IF bh.open = Null THEN v = <<>>
            ELSE /\ \A i \in 1..Len(v) :
                       /\ v[i] >= open /\ v[i] < close
                       /\ (v[i] - open) % 60 = 0
                 /\ \A i, j \in 1..Len(v) : i < j => v[i] < v[j]
                 /\ appointmentData = <<>> =>
                       /\ v # <<>> /\ v[1] = open
                       /\ \A i \in 1..(Len(v) - 1) : v[i + 1] - v[i] = 60
                       /\ v[Len(v)] + 60 >= close

\* an open day with a booking: some, not all, of the slots of the day are returned
C17_Witness ==
    /\ input.fn = "getAvailableTimeSlots" /\ output.done
    /\ SlotStarts(input.date) # {}
    /\ appointmentData # <<>>
    /\ output.value # <<>>
    /\ Len(output.value) < Cardinality(SlotStarts(input.date))

\* the elements of a list
Range(seq) == {seq[i] : i \in 1..Len(seq)}

\* C18: a generated slot is kept if and only if no appointment of a phone other than
\* the excluded one lies on the same local date less than one slot duration (60
\* minutes) away from it; the appointment of the excluded phone itself removes no
\* slot, so its own current time is offered back to it.
C18_SlotKeptIffNoConflict ==
    (input.fn = "getAvailableTimeSlots" /\ output.done) =>
        /\ Range(output.value) = FreeSlotStarts(input.date, input.userPhone, appointmentData)
        /\ \A k \in 1..Len(appointmentData) :
              appointmentData[k].phone = input.userPhone =>
                 Range(output.value) =
                    Range(getAvailableTimeSlots(input.date, input.userPhone,
                             SelectSeq(appointmentData,
                                       LAMBDA a : a.phone # input.userPhone)))

\* a contact booked at 14:00 asks for that day while another contact is booked at
\* 9:30: 14:00 is offered back, 10:00 is not offered
C18_Witness ==
    /\ input.fn = "getAvailableTimeSlots" /\ output.done
    /\ \E k, l \in 1..Len(appointmentData) :
          /\ appointmentData[k].phone = input.userPhone
          /\ appointmentData[k].appointmentTime = input.date * 1440 + 14 * 60
          /\ appointmentData[l].phone # input.userPhone
          /\ appointmentData[l].appointmentTime = input.date * 1440 + 9 * 60 + 30
    /\ input.date * 1440 + 14 * 60 \in Range(output.value)
    /\ input.date * 1440 + 10 * 60 \notin Range(output.value)

\* an appointment of another phone at 14:00 of the day asked for
OtherAtTwo ==
    \E k \in 1..Len(appointmentData) :
        /\ appointmentData[k].phone # input.userPhone
        /\ appointmentData[k].appointmentTime = input.date * 1440 + 14 * 60

\* the claim C19 as the specification words it: with an appointment at 14:00 on a date,
\* the slots of that date offered to any other phone contain no slot that starts in
\* 13:00-14:59, neither the 13:00 nor the 14:00 slot.
C19_AsStated ==
    (input.fn = "getAvailableTimeSlots" /\ output.done /\ OtherAtTwo) =>
        \A t \in Range(output.value) :
            ~ (t >= input.date * 1440 + 13 * 60 /\ t <= input.date * 1440 + 14 * 60 + 59)

\* C19: with an appointment at 14:00 on a date, the slots of that date offered to any
\* other phone contain no slot that starts after 13:00 and before 15:00, so the 14:00
\* slot is not offered; the 13:00 and the 15:00 slot, exactly one slot duration away,
\* are not in conflict with it and are offered unless another appointment of another
\* phone is less than 60 minutes from them.
C19_SlotsAroundAnAppointment ==
    (input.fn = "getAvailableTimeSlots" /\ output.done /\ OtherAtTwo) =>
        /\ \A t \in Range(output.value) :
              ~ (t > input.date * 1440 + 13 * 60 /\ t < input.date * 1440 + 15 * 60)
        /\ \A t \in {input.date * 1440 + 13 * 60, input.date * 1440 + 15 * 60} :
              (\A k \in 1..Len(appointmentData) :
                  appointmentData[k].phone # input.userPhone =>
                     \/ appointmentData[k].appointmentTime - t >= 60
                     \/ t - appointmentData[k].appointmentTime >= 60)
              => t \in Range(output.value)

\* another contact is booked at 14:00: 13:00 and 15:00 are offered, 14:00 is not
C19_Witness ==
    /\ input.fn = "getAvailableTimeSlots" /\ output.done /\ OtherAtTwo
    /\ input.date * 1440 + 13 * 60 \in Range(output.value)
    /\ input.date * 1440 + 15 * 60 \in Range(output.value)
    /\ input.date * 1440 + 14 * 60 \notin Range(output.value)

----------------------------------------------------------------------------
(* Properties of the time parser *)

\* the reply is the text HH:MM of the hour h and the minute m
IsCanonical(text, h, m) ==
    /\ Len(text) = 5 /\ text[3] = ":"
    /\ text[1] = DigitChars[(h \div 10) + 1] /\ text[2] = DigitChars[(h % 10) + 1]
    /\ text[4] = DigitChars[(m \div 10) + 1] /\ text[5] = DigitChars[(m % 10) + 1]

AmbiguousHour ==
    /\ input.fn = "selectTime" /\ output.done
    /\ output.matchedFormat
    /\ output.parsed.matchedPeriod = "none"
    /\ output.parsed.matchedHour \in 1..12

\* the candidates of an ambiguous hour: the morning hour and the hour twelve later; for
\* 12, noon and midnight
Candidates(h) == IF h = 12 THEN <<12, 0>> ELSE <<h, h + 12>>

\* the positions of the offered list whose slot is at hour h and the minute of the reply
PositionsAt(h) ==
    {i \in 1..Len(input.availableTimeSlots) :
        input.availableTimeSlots[i] % 1440 = h * 60 + output.parsed.matchedMinute}

\* the slot at the least position of a nonempty set of positions
FirstOf(positions) ==
    <<input.availableTimeSlots[CHOOSE i \in positions : \A j \in positions : i <= j]>>

PlausibleHours(p) ==
    IF p.matchedPeriod = "PM" /\ p.matchedHour < 12 THEN {p.matchedHour + 12}
    ELSE IF p.matchedPeriod = "AM" /\ p.matchedHour = 12 THEN {0}
    ELSE IF p.matchedPeriod # "none" \/ p.matchedHour > 12 THEN {p.matchedHour}
    ELSE IF p.matchedHour = 12 THEN {12, 0}
    ELSE {p.matchedHour, p.matchedHour + 12}

\* the positions of the offered list whose slot is within 15 minutes of the minute of
\* the reply at one of the plausible hours, on the day of the slot
NearPositions ==
    {i \in 1..Len(input.availableTimeSlots) :
        \E h \in PlausibleHours(output.parsed) :
            LET slot == input.availableTimeSlots[i]
                target == (slot \div 1440) * 1440 + h * 60 + output.parsed.matchedMinute
            IN  slot - target <= 15 /\ target - slot <= 15}

----------------------------------------------------------------------------
(* Properties of the reminder loop *)

\* the run of the callback in minute t has been made and has ended
TickOver(t) ==
    /\ t > ReminderStart
    /\ t < now \/ (t = now /\ \A i \in activeIntervals : i.due > now)
    /\ \A k \in ticks : k.now # t
\* whole days from the day of minute t to the day of the appointment
DaysAhead(apptTime, t) == (apptTime \div 1440) - (t \div 1440)
HalfPastEleven(day) == day * 1440 + 11 * 60 + 30
RunDays == 1..MaxRunDays
SentTo(kind, phone, apptTime, t) ==
    \E n \in 1..Len(sent) :
        /\ sent[n].kind = kind /\ sent[n].to = phone
        /\ sent[n].apptTime = apptTime /\ sent[n].at = t

\* C24: with the client connected, a run of the callback sends the countdown reminder
\* of an appointment exactly when its minute is 11:30 and the appointment is 1 to 7
\* calendar days ahead (not today, not 8 days ahead, not in the past), and the message
\* states that number of days
C24_CountdownIffHalfPastEleven ==
    /\ \A n \in 1..Len(sent) :
          sent[n].kind = "countdown" =>
              /\ sent[n].at % 1440 = 11 * 60 + 30
              /\ DaysAhead(sent[n].apptTime, sent[n].at) \in 1..7
              /\ sent[n].daysToGo = DaysAhead(sent[n].apptTime, sent[n].at)
              /\ \E k \in 1..Len(appointmentData) :
                    /\ appointmentData[k].phone = sent[n].to
                    /\ appointmentData[k].appointmentTime = sent[n].apptTime
    /\ \A day \in RunDays : \A k \in 1..Len(appointmentData) :
          (/\ TickOver(HalfPastEleven(day))
           /\ DaysAhead(appointmentData[k].appointmentTime, HalfPastEleven(day)) \in 1..7)
          => SentTo("countdown", appointmentData[k].phone,
                    appointmentData[k].appointmentTime, HalfPastEleven(day))

\* the run of Monday 11:30 has ended: the appointment 3 days ahead got its countdown,
\* the one of today got none
C24_Witness ==
    /\ TickOver(HalfPastEleven(1))
    /\ Len(appointmentData) = 2
    /\ DaysAhead(appointmentData[1].appointmentTime, HalfPastEleven(1)) = 0
    /\ DaysAhead(appointmentData[2].appointmentTime, HalfPastEleven(1)) = 3
    /\ \E n \in 1..Len(sent) :
          /\ sent[n].kind = "countdown" /\ sent[n].to = appointmentData[2].phone
          /\ sent[n].daysToGo = 3
    /\ \A n \in 1..Len(sent) :
          sent[n].kind = "countdown" => sent[n].to # appointmentData[1].phone

\* C25: a run of the callback sends the near-term reminder of an appointment exactly
\* when its date and minute are those of the appointment time minus 5 hours
C25_NearReminderFiveHoursBefore ==
    /\ \A n \in 1..Len(sent) :
          sent[n].kind = "near" =>
              /\ sent[n].at = sent[n].apptTime - 300
              /\ \E k \in 1..Len(appointmentData) :
                    /\ appointmentData[k].phone = sent[n].to
                    /\ appointmentData[k].appointmentTime = sent[n].apptTime
    /\ \A k \in 1..Len(appointmentData) :
          TickOver(appointmentData[k].appointmentTime - 300)
          => SentTo("near", appointmentData[k].phone, appointmentData[k].appointmentTime,
                    appointmentData[k].appointmentTime - 300)

\* the appointment of Tuesday 04:00 got its reminder in the run of Monday 23:00, and
\* the runs of the minutes after it sent nothing more
C25_Witness ==
    /\ now > 1 * 1440 + 23 * 60 + 1
    /\ \E k \in 1..Len(appointmentData) :
          /\ appointmentData[k].appointmentTime = 2 * 1440 + 4 * 60
          /\ SentTo("near", appointmentData[k].phone, 2 * 1440 + 4 * 60, 1 * 1440 + 23 * 60)
          /\ Cardinality({n \in 1..Len(sent) : sent[n].kind = "near"
                                               /\ sent[n].to = appointmentData[k].phone}) = 1

\* C30: when a day of the run is over, every appointment of the store whose own day
\* it was, or that was 7 days ahead of it, has been sent a reminder in a run of that day
C30_ReminderOnBothDays ==
    \A day \in RunDays : \A k \in 1..Len(appointmentData) :
        (/\ now >= (day + 1) * 1440
         /\ \/ appointmentData[k].appointmentTime \div 1440 = day
            \/ appointmentData[k].appointmentTime \div 1440 = day + 7)
        => \E n \in 1..Len(sent) :
              /\ sent[n].to = appointmentData[k].phone
              /\ sent[n].apptTime = appointmentData[k].appointmentTime
              /\ sent[n].at \div 1440 = day

\* C26: whatever imports and reconnects restart the loop, no contact gets two countdown
\* reminders on one calendar day: the run of 11:30 sends it once, no later run of the
\* day sends it again
C26_OneCountdownPerDay ==
    \A m, n \in 1..Len(sent) :
        (/\ m < n
         /\ sent[m].kind = "countdown" /\ sent[n].kind = "countdown"
         /\ sent[m].to = sent[n].to)
        => sent[m].at \div 1440 # sent[n].at \div 1440

\* an import restarted the loop on Monday morning, the run of 11:30 sent the countdown
\* of the imported appointment of Wednesday 14:00, and the run of 11:31 is over
C26_Witness ==
    /\ now > HalfPastEleven(1) + 1
    /\ activeIntervals # {} /\ ticks = {}
    /\ \E n \in 1..Len(sent) :
          /\ sent[n].kind = "countdown" /\ sent[n].apptTime = 3 * 1440 + 14 * 60
          /\ sent[n].at = HalfPastEleven(1) /\ sent[n].daysToGo = 2
          /\ \A m \in 1..Len(sent) :
                (sent[m].kind = "countdown" /\ sent[m].to = sent[n].to
                 /\ sent[m].at \div 1440 = 1) => m = n

----------------------------------------------------------------------------
(* Properties of the calls of the text generation service *)

GroqPending ==
    \/ \E t \in tasks : t.pc = "groq"
    \/ \E k \in ticks : k.pc \in {"countdown groq", "near groq"}
    \/ \E h \in hookTimers : h.pc = "groq"
\* the messages a step hands to sendWhatsAppMessage
NewlySent == SubSeq(sent', Len(sent) + 1, Len(sent'))

\* C27: at each of the five places (countdown reminder, near-term reminder, retention
\* message, farewell, hook message) the fixed template is the text when the service is
\* not configured, and when the one call made fails: the call is not made again, the
\* message with the template is handed to the transport and the handler goes on as it
\* does after an answer.
C27_TemplateFallback ==
    [][/\ ~groqKey =>
             /\ ~GroqPending'
             /\ \A n \in 1..Len(NewlySent) : NewlySent[n].text = "template"
             /\ \A t \in tasks' :
                   (t.kind \in {"retention", "farewell"} /\ t.pc = "reply")
                   => t.text = "template"
       /\ \A t \in tasks :
             (t.pc = "groq" /\ GroqFails(t)) =>
                 /\ [t EXCEPT !.pc = "reply", !.text = "template"] \in tasks'
                 /\ t.kind = "retention" => userReschedulingState'[t.phone] = ConfirmingEntry
                 /\ {u \in tasks' : u.pc = "groq"} = {u \in tasks : u.pc = "groq"} \ {t}
       /\ \A k \in ticks :
             (k.pc \in {"countdown groq", "near groq"} /\ TickGroqAnswers(k, "template")) =>
                 /\ Len(NewlySent) = 1
                 /\ NewlySent[1].text = "template"
                 /\ NewlySent[1].to = Head(k.queue).phone
                 /\ NewlySent[1].kind = (IF k.pc = "countdown groq" THEN "countdown" ELSE "near")
                 /\ \E r \in ticks' :
                       /\ r.queue = k.queue /\ r.now = k.now
                       /\ r.pc = (IF k.pc = "countdown groq" THEN "countdown send"
                                  ELSE "near send")
       /\ \A h \in hookTimers :
             (h.pc = "groq" /\ HookGroqAnswers(h, "template")) =>
                 /\ Len(NewlySent) = 1
                 /\ NewlySent[1].text = "template"
                 /\ NewlySent[1].kind = "hook" /\ NewlySent[1].to = h.person.phone
                 /\ [h EXCEPT !.pc = "send", !.text = "template"] \in hookTimers'
      ]_vars

\* the service is configured and has failed: a reminder and a hook message went out
\* with the template, and the farewell of a cancellation is about to
C27_Witness ==
    /\ groqKey
    /\ \E n \in 1..Len(sent) :
          sent[n].kind \in {"countdown", "near"} /\ sent[n].text = "template"
    /\ \E n \in 1..Len(sent) : sent[n].kind = "hook" /\ sent[n].text = "template"
    /\ \E t \in tasks : t.kind = "farewell" /\ t.pc = "reply" /\ t.text = "template"

----------------------------------------------------------------------------
(* Properties of two contacts at once *)

\* the record of another phone is within an hour of the time t
TakenByAnother(t, phone, appts) ==
    \E k \in 1..Len(appts) :
        /\ appts[k].phone # phone
        /\ appts[k].appointmentTime \div 1440 = t \div 1440
        /\ appts[k].appointmentTime - t < 60 /\ t - appts[k].appointmentTime < 60

\* C28: the slots offered to a contact are those computed when the date was selected:
\* a change of the store leaves the list of a contact in SelectingTime as it is, and
\* the handler of a typed time that matches a slot of the list makes it the time of
\* the record whatever the store holds by then, a slot taken by another contact since
\* the offer included.
C28_SnapshotCommittedAsOffered ==
    [][\A p \in Phones :
          /\ ( /\ userReschedulingState[p].stage = "selecting_time"
               /\ appointmentData' # appointmentData
               /\ userReschedulingState'[p].stage = "selecting_time" )
             => userReschedulingState'[p].availableTimeSlots =
                   userReschedulingState[p].availableTimeSlots
          /\ (AcceptsTime(p) /\ HasAppointment(appointmentData, p) /\ handleTimeSelection)
             => /\ RecordOf(appointmentData', p).appointmentTime = ResolvedSlot(p)
                /\ \E t \in tasks' : t.phone = p /\ t.kind = "rescheduled"
      ]_vars

\* the contact was offered the slots of Tuesday, an import then booked Tuesday 14:30
\* for another contact, and the reply "2pm" was committed all the same
C28_Witness ==
    /\ \E t \in tasks : t.phone = PhoneA /\ t.kind = "rescheduled" /\ t.pc = "reply"
    /\ HasAppointment(appointmentData, PhoneA)
    /\ TakenByAnother(RecordOf(appointmentData, PhoneA).appointmentTime, PhoneA,
                      appointmentData)

\* the step is one of a delayed handler of phone q: its start by the timer at the head
\* of the queue, or its continuation after an await
HandlerStepOf(q) ==
    \/ timers # <<>> /\ timers' = Tail(timers) /\ Head(timers).phone = q
    \/ timers' = timers /\ \E t \in tasks : t.phone = q /\ t \notin tasks'

\* C29: with two contacts writing at once, every step that is not a step of a handler
\* of phone q (the arrival of a message, any step for the other phone) leaves the
\* entry of q and the record of q as they are; and nothing that is pending for one
\* contact holds up the other: the handler of the timer at the head of the queue is
\* ready to start whatever handlers are suspended, and a message of a contact with
\* nothing pending of its own is always taken.
C29_OtherPhoneUntouched ==
    /\ [][\A q \in {PhoneA, PhoneB} :
             ~HandlerStepOf(q) =>
                /\ userReschedulingState'[q] = userReschedulingState[q]
                /\ HasAppointment(appointmentData', q) = HasAppointment(appointmentData, q)
                /\ HasAppointment(appointmentData, q) =>
                      RecordOf(appointmentData', q) = RecordOf(appointmentData, q)]_vars
    /\ [](timers # <<>> => Fires(Head(timers).h))
    /\ [](\A message \in TwoPhoneMessages :
             Pending(message.from) < MaxPending => ENABLED OnMessage(message))

\* the reply that confirms the new time of one contact and the list of times for the
\* other are pending together: the handler of one started while the reply of the
\* other was awaited, and the record of the other is as it was
C29_Witness ==
    /\ \E t \in tasks : t.phone = PhoneA /\ t.pc = "reply" /\ t.kind = "rescheduled"
    /\ \E t \in tasks : t.phone = PhoneB /\ t.pc = "reply" /\ t.kind = "time list"
    /\ userReschedulingState[PhoneB].stage = "selecting_time"
    /\ HasAppointment(appointmentData, PhoneB)
    /\ RecordOf(appointmentData, PhoneB).appointmentTime = AtTime(3, 16, 0)
    /\ RecordOf(appointmentData, PhoneA).appointmentTime # AtTime(3, 14, 0)

----------------------------------------------------------------------------
(* Properties of the clear routes *)

\* C31: a clear-appointments or clear-status request that supplies no admin PIN
\* leaves the appointment store and the status list unchanged.
C31_ClearOnlyWithPin ==
    [][\A req \in ClearRequests :
          req.pin = Null =>
             /\ ClearAppointments(req) => appointmentData' = appointmentData
             /\ ClearStatus(req) => statusSheetData' = statusSheetData]_vars

----------------------------------------------------------------------------
(* Properties of the seen set *)

\* the contacts an import has just classified as new: those of the hook timer it set
ClassifiedNew ==
    UNION {PhonesOf(h.newAppointments) : h \in {g \in hookTimers' \ hookTimers : g.pc = "start"}}

\* C32: whatever imports, cancellations and clears came before, an import classifies
\* as new only phones that are not in the persisted seen set, it puts each of them
\* into the set, and no step takes a phone out of the set: a phone is classified as
\* new by at most one import, also when it is imported again after its appointment
\* was cancelled or cleared.
C32_NewAtMostOnce ==
    [][/\ ClassifiedNew \cap seenPhones = {}
       /\ ClassifiedNew \subseteq seenPhones'
       /\ seenPhones \subseteq seenPhones'
       /\ Upload("Dup") =>
             ClassifiedNew = PhonesOf(smartMerge(appointmentData, newAppointmentsOf(Batch("Dup"))))
                                \ seenPhones]_vars

\* Ann's appointment was removed and the import brought phone 1 back, as Anna; the
\* hook timer of that import names Bob alone
C32_Witness ==
    /\ \E k \in 1..Len(appointmentData) :
          appointmentData[k].phone = PhoneA /\ appointmentData[k].name = "Anna"
    /\ \E h \in hookTimers : h.pc = "start" /\ PhonesOf(h.newAppointments) = {PhoneB}

----------------------------------------------------------------------------
(* Properties of the reminder loop beside the dialogues and the imports *)

\* Bob's appointment of Friday 10:00: no import brings this record and Bob never
\* writes, so that when the store holds it, it has held it since the start
BobOfFriday == Row("Bob", PhoneB, AtTime(5, 10, 0))

\* C33: an appointment that is in the store for the whole run of the callback of
\* Monday 11:30 is evaluated by it, whatever cancellation of another contact or
\* import was committed while the run waited for a message to be sent: when the run
\* that sent Ann's countdown is over, Bob's countdown, due in the same minute, has
\* been sent too.
C33_EveryAppointmentEvaluated ==
    \A k \in 1..Len(appointmentData) :
        (/\ appointmentData[k] = BobOfFriday
         /\ SentTo("countdown", PhoneA, AtTime(4, 14, 0), HalfPastEleven(1))
         /\ TickOver(HalfPastEleven(1)))
        => SentTo("countdown", PhoneB, BobOfFriday.appointmentTime, HalfPastEleven(1))

----------------------------------------------------------------------------
(* Properties of the reply with hour 0 *)

\* the reply was understood, its hour is 0 and it names no meridiem
HourZeroReply ==
    /\ output.done /\ output.matchedFormat
    /\ output.parsed.matchedHour = 0 /\ output.parsed.matchedPeriod = NoPeriod

\* C34: a reply whose hour is 0 and that names no meridiem ("0", "00:00") selects
\* only a slot within 15 minutes of midnight, never a slot at or around 12:00 noon.
C34_HourZeroIsMidnight ==
    (HourZeroReply /\ output.value # Null) =>
        \/ MinuteOfDay(output.value[1]) <= 15
        \/ MinuteOfDay(output.value[1]) >= 1440 - 15

----------------------------------------------------------------------------
(* Properties of the dialogue entry in SelectingTime *)

\* C35: in every state, those between the awaits of handleDateSelection included, a
\* contact whose stage is SelectingTime has a list of time slots that is not empty
\* and whose slots are all on its selected date.
C35_SelectingTimeHasSlots ==
    \A p \in Phones :
        (userReschedulingState[p] # NoEntry /\ userReschedulingState[p].stage = "selecting_time")
        => /\ userReschedulingState[p].availableTimeSlots # Undefined
           /\ Len(userReschedulingState[p].availableTimeSlots) > 0
           /\ \A k \in 1..Len(userReschedulingState[p].availableTimeSlots) :
                 DayOf(userReschedulingState[p].availableTimeSlots[k]) =
                    userReschedulingState[p].selectedDate

----------------------------------------------------------------------------
(* Properties of the time a reschedule commits *)

\* C36: the time that a completed reschedule dialogue writes into the record is on a
\* calendar date after the date of the commit, and so later than the moment of the
\* commit, however long the contact waited between the offer of the dates and its
\* replies.
C36_CommittedTimeInFuture ==
    [][\A p \in Phones :
          (AcceptsTime(p) /\ HasAppointment(appointmentData, p) /\ handleTimeSelection)
          => /\ RecordOf(appointmentData', p).appointmentTime > now
             /\ DayOf(RecordOf(appointmentData', p).appointmentTime) > DayOf(now)]_vars

----------------------------------------------------------------------------
(* Properties of an import after a cancellation *)

\* C38: an import whose sheet lists a phone that has no record in the store, the
\* phone of a completed cancellation included, adds one record for it, with the name
\* and the time of the sheet's first valid row for that phone: nothing of the
\* cancellation is remembered.
C38_ImportRestoresCancelled ==
    [][\A p \in {PhoneA, PhoneB} :
          (~HasAppointment(appointmentData, p) /\ Upload("Dup"))
          => /\ Cardinality({k \in 1..Len(appointmentData') : appointmentData'[k].phone = p}) = 1
             /\ RecordOf(appointmentData', p) = RecordOf(newAppointmentsOf(Batch("Dup")), p)]_vars

\* Ann has cancelled and her dialogue is over (Bob's record of the start is still
\* there, so that the store was not cleared), and the import has brought phone 1
\* back with the sheet's name and time
C38_Witness ==
    /\ appointmentData = <<BobOfFriday, FormatRow(BatchDup[1])>>
    /\ userReschedulingState[PhoneA] = NoEntry
    /\ ~\E t \in tasks : t.phone = PhoneA
    /\ timers = <<>>

----------------------------------------------------------------------------
(* Properties of two messages of one contact within the delay *)

\* the timer at the head of the queue starts the handler h of a contact that is Idle
StartsIdle(h) ==
    /\ Fires(h)
    /\ userReschedulingState[Head(timers).phone].stage = "idle"
    /\ timers' = Tail(timers)

\* C37: each message of a contact is put on the timer of the handler that the stage
\* of its entry at its arrival names, whatever messages of the contact are still
\* waiting; and a run of handleDateSelection, handleTimeSelection or
\* processCancellation that starts when an earlier handler has deleted the entry
\* changes neither the store nor the entry, it ends in its catch block or with the
\* rejection of the input, and what it does after its await leaves the store as it
\* is and the entry deleted.
C37_LateHandlerChangesNothing ==
    [][/\ \A m \in BurstMessages :
             (Len(timers') > Len(timers) /\ OnMessageWithin(m, MaxBurst)) =>
                 LET stage == userReschedulingState[m.from].stage
                     h == timers'[Len(timers')].h
                 IN  /\ stage = "selecting_date" => h = "handleDateSelection"
                     /\ stage = "selecting_time" => h = "handleTimeSelection"
                     /\ stage = "confirming_cancellation" =>
                            h \in {"processCancellation", "handleRescheduleRequest",
                                   "replyUnsure"}
                     /\ stage = "idle" =>
                            h \in {"handleCancellationRequest", "handleRescheduleRequest"}
       /\ \A h \in {"handleDateSelection", "handleTimeSelection", "processCancellation"} :
             StartsIdle(h) =>
                 /\ appointmentData' = appointmentData
                 /\ userReschedulingState' = userReschedulingState
                 /\ \E t \in tasks' :
                       /\ t.h = h /\ t.phone = Head(timers).phone
                       /\ t.kind \in {"error", "invalid"}
       /\ \A t \in tasks \ tasks' :
             (t.kind \in {"error", "invalid"} /\ timers' = timers) =>
                 /\ appointmentData' = appointmentData
                 /\ userReschedulingState'[t.phone] \in {userReschedulingState[t.phone], NoEntry}
      ]_vars

\* the contact wrote "2pm" and "6pm" while it was offered the slots of Tuesday: the
\* first reply was committed and its handler deleted the entry, and the handler of
\* the second one has started since and is in its catch block
C37_Witness ==
    /\ userReschedulingState[PhoneA] = NoEntry
    /\ HasAppointment(appointmentData, PhoneA)
    /\ RecordOf(appointmentData, PhoneA).appointmentTime = AtTime(2, 14, 0)
    /\ \E t \in tasks : t.h = "handleTimeSelection" /\ t.kind = "error" /\ t.pc = "catch"

====
